---- MODULE Spec2Model ----
(***************************************************************************)
(* A model of the errcode library: error values that carry a hierarchical  *)
(* Code, the annotation wrappers (user message, operation, Wrap), the      *)
(* chain resolution CodeChain / ErrorCodes and the aggregate built by      *)
(* Combine.                                                                *)
(*                                                                         *)
(* Error values are records tagged by the field k (the Go dynamic type).   *)
(* Strings built by Error() are sequences of tokens, so that               *)
(* concatenation is \o and "a: b" is <<"a", ": ", "b">>.                    *)
(* An *errwrap.ErrorWrap is a cell of the variable heap; a value that      *)
(* embeds one holds the cell's index in the field ref.                     *)
(* A *Code is a cell of the variable codeHeap (0 is the nil pointer).       *)
(***************************************************************************)
EXTENDS Integers, Sequences, FiniteSets, TLC

VARIABLES
    heap,       \* the ErrorWrap cells allocated so far: Seq(error value)
    codeHeap,   \* the Code values that a Parent pointer points to
    errs,       \* the error values the application holds
    codes,      \* the Code values the application holds
    metaData,   \* a MetaData table (httpMetaData): full path -> item
    codeCache,  \* goa.go codeCache: error name -> Code
    reqs,       \* the requests the GOA adapter is handling
    call        \* the last library call: its function, argument(s) and result

vars == <<heap, codeHeap, errs, codes, metaData, codeCache, reqs, call>>

-----------------------------------------------------------------------------
(* Bounds of the model *)

\* the number of composite error values the application holds at once
MaxErrs == 2

\* the number of requests handled at a time
MaxReqs == 2

-----------------------------------------------------------------------------
(* Codes: codes.go, type Code and the package level codes *)

\* a nil *Code
NilPtr == 0

\* NewCode(seg): a top-level code (no separators in seg)
NewCode(seg) == [codeStr |-> seg, Parent |-> NilPtr]

\* InvalidInputCode = NewCode("input")
InvalidInputCode == NewCode("input")

\* NotFoundCode = NewCode("missing")
NotFoundCode == NewCode("missing")

\* Child stores &code, the address of a copy of the receiver: the cells of
\* codeHeap after package initialisation. Cell 1 is the copy of
\* InvalidInputCode made by InvalidInputCode.Child("input.missing").
InitCodeHeap == <<InvalidInputCode>>

\* a child code of InvalidInputCode, as the tests build registeredCode:
\* InvalidInputCode.Child("input.missing") keeps the last component only
InputMissingCode == [codeStr |-> "missing", Parent |-> 1]

RECURSIVE CodeStr(_, _)
\* Code.CodeStr: the full path, here the sequence of its segments
CodeStr(ch, code) ==
    IF code.Parent = NilPtr
    THEN <<code.codeStr>>
    ELSE CodeStr(ch, ch[code.Parent]) \o <<code.codeStr>>

RECURSIVE IsAncestor(_, _, _)
\* a test that looks at the code and at its parent only
IsAncestorShallow(ch, code, ancestorCode) ==
    \/ code = ancestorCode
    \/ code.Parent # NilPtr /\ ch[code.Parent] = ancestorCode

\* Code.IsAncestor: struct equality (codeStr and the Parent pointer), then up
IsAncestor(ch, code, ancestorCode) ==
    IF code = ancestorCode THEN TRUE
    ELSE IF code.Parent = NilPtr THEN FALSE
    ELSE IsAncestor(ch, ch[code.Parent], ancestorCode)

\* the codes that exist after package initialisation
InitCodes == {InvalidInputCode, NotFoundCode, InputMissingCode}

\* checkCodePath of a code whose codeStr splits at the dots into paths:
\* TRUE when it returns nil. The component before the last is compared with
\* the codeStr field of the parent.
checkCodePath(ch, paths, parent) ==
    IF Len(paths) = 1 THEN TRUE
    ELSE IF parent = NilPtr THEN FALSE
    ELSE paths[Len(paths) - 1] = ch[parent].codeStr

\* NewCode(codeRep) panics
NewCodePanics(ch, paths) == ~checkCodePath(ch, paths, NilPtr)

\* code.Child(childStr) panics; the parent is the copy of the receiver
ChildPanics(ch, code, paths) == ~checkCodePath(Append(ch, code), paths, Len(ch) + 1)

\* a Child that keeps the first component of childStr
ChildFirst(ch, code, paths) ==
    <<[codeStr |-> paths[1], Parent |-> Len(ch) + 1], Append(ch, code)>>

\* code.Child(childStr) when it does not panic: <<the child, the cells after
\* the copy of the receiver got its own>>. The child keeps the last
\* component of childStr.
Child(ch, code, paths) ==
    <<[codeStr |-> paths[Len(paths)], Parent |-> Len(ch) + 1], Append(ch, code)>>

-----------------------------------------------------------------------------
(* Meta data of codes: MetaDataFromAncestors, SetMetaData, SetHTTP *)

\* a nil item
NilItem == 0

\* httpMetaData after package initialisation: SetHTTP(http.StatusBadRequest)
\* of InvalidInputCode and SetHTTP(http.StatusNotFound) of NotFoundCode
InitMetaData == (<<"input">> :> 400) @@ (<<"missing">> :> 404)

RECURSIVE MetaDataFromAncestors(_, _, _)
\* a lookup that asks the ancestors before the code
MetaDataFromRoot(ch, md, code) ==
    IF code.Parent # NilPtr /\ MetaDataFromAncestors(ch, md, ch[code.Parent]) # NilItem
    THEN MetaDataFromAncestors(ch, md, ch[code.Parent])
    ELSE IF CodeStr(ch, code) \in DOMAIN md THEN md[CodeStr(ch, code)]
    ELSE NilItem

\* code.MetaDataFromAncestors(metaData)
MetaDataFromAncestors(ch, md, code) ==
    IF CodeStr(ch, code) \in DOMAIN md THEN md[CodeStr(ch, code)]
    ELSE IF code.Parent = NilPtr THEN NilItem
    ELSE MetaDataFromAncestors(ch, md, ch[code.Parent])

\* a SetMetaData that replaces an entry
SetMetaDataOverwrite(ch, md, code, item) ==
    <<FALSE, [p \in DOMAIN md \cup {CodeStr(ch, code)} |->
                 IF p = CodeStr(ch, code) THEN item ELSE md[p]]>>

\* code.SetMetaData(metaData, item): <<an error is returned, the table after>>
SetMetaData(ch, md, code, item) ==
    IF CodeStr(ch, code) \in DOMAIN md THEN <<TRUE, md>>
    ELSE <<FALSE, (CodeStr(ch, code) :> item) @@ md>>

-----------------------------------------------------------------------------
(* Error values *)

\* the nil error / nil ErrorCode interface value
Nil == [k |-> "nil"]

\* errors.New(msg) of the errors package: no code, no cause
New(msg) == [k |-> "plain", msg |-> msg]

\* errors.Wrap(cause, msg) and the result of errors.WrapFn(msg)(cause):
\* Error() is "msg: cause", Unwrap() is cause. pre is the formatted message.
WithMessage(pre, cause) == [k |-> "msg", pre |-> pre, cause |-> cause]

\* MinimalError{} of the tests, for any code: an ErrorCode with no Unwrap.
\* op and user are the labels of the test types OpErrorHas / UserMsgError
\* (hasOp / hasUser tell whether the type has the method at all).
UserError(code, hasOp, op, hasUser, user) ==
    [k |-> "leaf", code |-> code, hasOp |-> hasOp, op |-> op,
     hasUser |-> hasUser, user |-> user]

MinimalError(code) == UserError(code, FALSE, "", FALSE, "")

\* MultiErrors{Multi: members} of the tests: a group that is no ErrorCode
MultiErrors(members) == [k |-> "group", Multi |-> members]

\* CodedError{GetCode, *errwrap.ErrorWrap}
CodedError(code, ref) == [k |-> "coded", GetCode |-> code, ref |-> ref]

\* UserMsgErrCode{Msg, Err}
UserMsgErrCode(msg, err) == [k |-> "user", Msg |-> msg, Err |-> err]

\* opErrCode{ErrorCode, EmbedOp{Op}}
opErrCode(err, operation) == [k |-> "op", ErrorCode |-> err, Op |-> operation]

\* wrappedErrorCode / wrappedUserCode / wrappedOpCode{withError{With, *ErrorWrap}}
\* t is "code", "user" or "op"
withError(t, errCode, ref) == [k |-> "wrapped", t |-> t, With |-> errCode, ref |-> ref]

\* multiErrorCode{multiCode{ErrCode, rest}}
multiCode(errCode, rest) == [k |-> "multi", ErrCode |-> errCode, rest |-> rest]

\* ChainContext{ErrorCode, Top}
ChainContext(errCode, top) == [k |-> "chain", ErrorCode |-> errCode, Top |-> top]

\* &ErrorWrapper{Err} of the tests: an ErrorCode (code registeredCode) that
\* unwraps to Err and gives Err as its client data; Err is in the cell ref
ErrorWrapper(ref) == [k |-> "ewrap", ref |-> ref]

\* multiUserCode{multiCode{ErrCode, rest}}: the aggregate of CombineUser
multiUserCode(errCode, rest) ==
    [k |-> "multi", ErrCode |-> errCode, rest |-> rest, user |-> TRUE]

\* The type implements ErrorCode (has Error() and Code())
IsErrorCode(e) ==
    e.k \in {"leaf", "coded", "user", "op", "wrapped", "multi", "chain", "ewrap"}

\* The type implements unwrapsError: Unwrap() []error
IsUnwrapsError(e) == e.k \in {"group", "multi"}

\* The type implements asAny: As(any) bool. No type of the library or of its
\* tests has the method.
IsAsAny(e) == FALSE

\* multiCode.Unwrap / MultiErrors.Unwrap: the members of a group
UnwrapGroup(e) ==
    IF e.k = "group" THEN e.Multi
    ELSE IF e.k = "multi" THEN <<e.ErrCode>> \o e.rest
    ELSE <<>>

RECURSIVE Unwrap(_, _)
\* errors.Unwrap(err): the Unwrap() error method of the type, nil without one
\* (a type with Unwrap() []error has none)
Unwrap(h, e) ==
    CASE e.k = "msg" -> e.cause
      [] e.k = "coded" -> h[e.ref]
      [] e.k = "user" -> e.Err
      [] e.k = "op" -> e.ErrorCode
      [] e.k = "wrapped" -> h[e.ref]
      [] e.k = "ewrap" -> h[e.ref]
      [] e.k = "chain" ->
            \* ChainContext.Unwrap
            IF Unwrap(h, e.Top) # Nil THEN Unwrap(h, e.Top) ELSE e.ErrorCode
      [] OTHER -> Nil

\* the type has an Unwrap() error method (unwrapError / unwrapper)
IsUnwrapError(e) == e.k \in {"msg", "coded", "user", "op", "wrapped", "chain", "ewrap"}

RECURSIVE JoinRest(_, _)
RECURSIVE Error(_, _)
\* the Error() method of each type
Error(h, e) ==
    CASE e.k = "plain" -> e.msg
      [] e.k = "msg" -> e.pre \o <<": ">> \o Error(h, e.cause)
      [] e.k = "leaf" -> <<"error">>
      [] e.k = "group" -> <<"MultiErrors">>
      [] e.k = "coded" -> Error(h, h[e.ref])
      [] e.k = "user" -> <<e.Msg, ": ">> \o Error(h, e.Err)
      [] e.k = "op" -> <<e.Op, ": ">> \o Error(h, e.ErrorCode)
      [] e.k = "wrapped" -> Error(h, h[e.ref])
      [] e.k = "ewrap" -> Error(h, h[e.ref])
      [] e.k = "multi" -> Error(h, e.ErrCode) \o JoinRest(h, e.rest)
      [] e.k = "chain" -> Error(h, e.Top)

\* the loop of multiCode.Error: "; " + item.Error() for every item of rest
JoinRest(h, rest) ==
    IF rest = <<>> THEN <<>>
    ELSE <<"; ">> \o Error(h, Head(rest)) \o JoinRest(h, Tail(rest))

RECURSIVE Code(_)
\* the Code() method of each ErrorCode type
Code(e) ==
    CASE e.k = "leaf" -> e.code
      [] e.k = "coded" -> e.GetCode
      [] e.k = "user" -> Code(e.Err)
      [] e.k = "op" -> Code(e.ErrorCode)
      [] e.k = "wrapped" -> Code(e.With)
      [] e.k = "ewrap" -> InputMissingCode
      [] e.k = "multi" -> Code(e.ErrCode)
      [] e.k = "chain" -> Code(e.ErrorCode)

-----------------------------------------------------------------------------
(* group.go: Combine, CodeChain, ErrorCodes *)

RECURSIVE combineLoop(_, _, _)
\* a loop that keeps the promoted member among the rest as well
combineLoopKeep(initial, rest, others) ==
    IF others = <<>> THEN <<initial, rest>>
    ELSE IF initial = Nil /\ IsErrorCode(Head(others))
         THEN combineLoop(Head(others), Append(rest, Head(others)), Tail(others))
         ELSE combineLoop(initial, Append(rest, Head(others)), Tail(others))

\* the loop of combineGeneric over others: the first member that is an
\* ErrorCode becomes initial when initial is nil, the others go to rest.
\* Returns <<initial, rest>>.
combineLoop(initial, rest, others) ==
    IF others = <<>> THEN <<initial, rest>>
    ELSE IF initial = Nil /\ IsErrorCode(Head(others))
         THEN combineLoop(Head(others), rest, Tail(others))
         ELSE combineLoop(initial, Append(rest, Head(others)), Tail(others))

\* combineGeneric: nil when there is nothing to combine
combineGeneric(initial, others) ==
    LET r == combineLoop(initial, <<>>, others)
    IN  IF Len(r[2]) = 0 /\ r[1] = Nil THEN Nil ELSE multiCode(r[1], r[2])

\* a Combine that builds an aggregate for a single input too
CombineAlways(initial, others) == combineGeneric(initial, others)

\* Combine(initial, others...)
Combine(initial, others) ==
    IF Len(others) = 0 /\ initial # Nil THEN initial
    ELSE combineGeneric(initial, others)

\* The type implements UserCode (ErrorCode and HasUserMsg)
IsUserCode(e) ==
    /\ IsErrorCode(e)
    /\ \/ e.k = "user"
       \/ e.k = "leaf" /\ e.hasUser
       \/ e.k = "wrapped" /\ e.t = "user"
       \/ e.k = "multi" /\ "user" \in DOMAIN e

RECURSIVE combineLoopUser(_, _, _)
\* the loop of combineGeneric instantiated for UserCode
combineLoopUser(initial, rest, others) ==
    IF others = <<>> THEN <<initial, rest>>
    ELSE IF initial = Nil /\ IsUserCode(Head(others))
         THEN combineLoopUser(Head(others), rest, Tail(others))
         ELSE combineLoopUser(initial, Append(rest, Head(others)), Tail(others))

\* CombineUser(initial, others...)
CombineUser(initial, others) ==
    IF Len(others) = 0 /\ initial # Nil THEN initial
    ELSE LET r == combineLoopUser(initial, <<>>, others)
         IN  IF Len(r[2]) = 0 /\ r[1] = Nil THEN Nil
             ELSE multiUserCode(r[1], r[2])

\* a collection that keeps the nil results too
KeepAll(s) == s

\* the members of a sequence that are not nil, in order
NonNil(s) == SelectSeq(s, LAMBDA x : x # Nil)

RECURSIVE CodeChain(_, _)
RECURSIVE CodeChainAll(_, _)
RECURSIVE chainLoop(_, _, _)

\* CodeChain applied to every member of a group (the loop of checkError)
CodeChainAll(h, members) ==
    IF members = <<>> THEN <<>>
    ELSE <<CodeChain(h, Head(members))>> \o CodeChainAll(h, Tail(members))

\* As(target) called with a nil interface value as target, as checkError
\* does (as.As(ecAs), as.As(eg)): an As method sets its target and returns
\* true only for a pointer target it recognises
AsNilTarget(err) == FALSE

\* a checkError that stops at the first member of a group that resolves
checkErrorFirstOnly(h, err) ==
    IF IsErrorCode(err) THEN err
    ELSE IF IsUnwrapsError(err)
    THEN LET group == NonNil(CodeChainAll(h, UnwrapGroup(err)))
         IN  IF Len(group) = 0 THEN Nil ELSE group[1]
    ELSE Nil

\* checkError of CodeChain: the code of one node of the chain, or nil
checkError(h, err) ==
    IF IsErrorCode(err) THEN err
    ELSE IF IsAsAny(err) /\ AsNilTarget(err) THEN Nil     \* return ecAs (nil)
    ELSE IF IsUnwrapsError(err) \/ (IsAsAny(err) /\ AsNilTarget(err))
    THEN LET group == NonNil(CodeChainAll(h, UnwrapGroup(err)))
         IN  IF Len(group) = 0 THEN Nil
             ELSE IF Len(group) = 1 THEN group[1]
             ELSE Combine(group[1], Tail(group))
    ELSE Nil

\* a loop that returns the code it finds without the context of the input
chainLoopBare(h, err, errInput) ==
    IF err = Nil THEN Nil
    ELSE IF IsErrorCode(err) THEN err
    ELSE chainLoop(h, Unwrap(h, err), errInput)

\* the loop of CodeChain: for err != nil { checkError; err = Unwrap(err) }
chainLoop(h, err, errInput) ==
    IF err = Nil THEN Nil
    ELSE LET errCode == checkError(h, err)
         IN  IF errCode # Nil THEN ChainContext(errCode, errInput)
             ELSE chainLoop(h, Unwrap(h, err), errInput)

\* a CodeChain that puts every input through the loop
CodeChainNoFastPath(h, errInput) == chainLoop(h, errInput, errInput)

\* CodeChain(errInput)
CodeChain(h, errInput) ==
    IF IsErrorCode(errInput) THEN errInput
    ELSE chainLoop(h, errInput, errInput)

\* a nil *Code
NilCode == [codeStr |-> "", Parent |-> -1]

\* GetCode(err): the code of CodeChain(err), nil without one
GetCode(h, err) ==
    LET errCode == CodeChain(h, err)
    IN  IF errCode # Nil THEN Code(errCode) ELSE NilCode

RECURSIVE UnwrapGroups(_, _)
RECURSIVE UnwrapGroupsAll(_, _)
\* errwrap.UnwrapGroups(err): the error, then what it unwraps to (deeply),
\* then the members of a group, each walked the same way
UnwrapGroups(h, err) ==
    IF err = Nil THEN <<>>
    ELSE <<err>> \o UnwrapGroups(h, Unwrap(h, err))
                 \o UnwrapGroupsAll(h, UnwrapGroup(err))

UnwrapGroupsAll(h, members) ==
    IF members = <<>> THEN <<>>
    ELSE UnwrapGroups(h, Head(members)) \o UnwrapGroupsAll(h, Tail(members))

\* the test of ErrorCodes that keeps a candidate: the list is empty or the
\* last kept entry's code has another codeStr field
keepCode(errorCodes, errcode) ==
    \/ Len(errorCodes) = 0
    \/ Code(errorCodes[Len(errorCodes)]).codeStr # Code(errcode).codeStr

RECURSIVE errorCodesLoop(_, _)
\* the loop of ErrorCodes over the walk
errorCodesLoop(errorCodes, walk) ==
    IF walk = <<>> THEN errorCodes
    ELSE IF IsErrorCode(Head(walk)) /\ keepCode(errorCodes, Head(walk))
         THEN errorCodesLoop(Append(errorCodes, Head(walk)), Tail(walk))
         ELSE errorCodesLoop(errorCodes, Tail(walk))

\* ErrorCodes(errIn)
ErrorCodes(h, errIn) == errorCodesLoop(<<>>, UnwrapGroups(h, errIn))

-----------------------------------------------------------------------------
(* codes.go: NewCodedError *)

\* a constructor that always takes the given code
codedErrorCodeGiven(ch, err, code) == code

\* the code newCodedError gives the result: the error's own code when it
\* descends from the given code, the given code otherwise
codedErrorCode(ch, err, code) ==
    IF IsErrorCode(err) /\ IsAncestor(ch, Code(err), code) THEN Code(err) ELSE code

\* NewCodedError(err, code) for a non-nil err: <<the error, the heap after
\* errwrap.NewErrorWrap(err) allocated its cell>>
NewCodedError(h, ch, err, code) ==
    <<CodedError(codedErrorCode(ch, err, code), Len(h) + 1), Append(h, err)>>

\* InternalCode = NewCode("internal")
InternalCode == NewCode("internal")

\* the CodedError that the function built by makeInternalStackCode(defaultCode)
\* hands to NewStackCode for a non-nil err, and the heap after it
internalStackCode(h, ch, defaultCode, err) ==
    <<CodedError(IF IsErrorCode(err) /\ IsAncestor(ch, Code(err), defaultCode)
                 THEN Code(err) ELSE defaultCode,
                 Len(h) + 1),
      Append(h, err)>>

-----------------------------------------------------------------------------
(* wrap.go: the wrapping combinators *)

\* The type implements errwrap.ErrorWrapper (WrapError): the types that
\* embed *errwrap.ErrorWrap
IsErrorWrapper(e) == e.k \in {"coded", "wrapped", "ewrap"}

RECURSIVE asErrorWrapper(_, _)
RECURSIVE asErrorWrapperAny(_, _)
\* a search that looks at err only, not at what it unwraps to
asErrorWrapperOuter(h, err) ==
    IF err # Nil /\ IsErrorWrapper(err) THEN err.ref ELSE 0

\* the walk of errors.As(err, &ErrorWrapper) that errwrap.WrapInPlace makes:
\* err, then what it unwraps to, the members of a group depth first.
\* The cell of the first ErrorWrapper, 0 without one.
asErrorWrapper(h, err) ==
    IF err = Nil THEN 0
    ELSE IF IsErrorWrapper(err) THEN err.ref
    ELSE IF IsUnwrapError(err) THEN asErrorWrapper(h, Unwrap(h, err))
    ELSE IF IsUnwrapsError(err) THEN asErrorWrapperAny(h, UnwrapGroup(err))
    ELSE 0

asErrorWrapperAny(h, members) ==
    IF members = <<>> THEN 0
    ELSE IF asErrorWrapper(h, Head(members)) # 0
         THEN asErrorWrapper(h, Head(members))
         ELSE asErrorWrapperAny(h, Tail(members))

\* a WrapInPlace that leaves the cell as it is
WrapInPlaceNoop(h, err, pre) == h

\* errwrap.WrapInPlace(err, wrap): ErrorWrap.WrapError replaces the cell's
\* error by wrap(error). The heap after the call (unchanged when not ok).
WrapInPlace(h, err, pre) ==
    LET ref == asErrorWrapper(h, err)
    IN  IF ref = 0 THEN h
        ELSE [h EXCEPT ![ref] = WithMessage(pre, h[ref])]

\* the ok result of WrapInPlace
WrapInPlaceOK(h, err) == asErrorWrapper(h, err) # 0

\* newWithError(errCode, wrap): withError{With: errCode,
\* ErrorWrap: NewErrorWrap(wrap(errCode))} in a new cell
newWithError(h, t, errCode, pre) ==
    <<withError(t, errCode, Len(h) + 1), Append(h, WithMessage(pre, errCode))>>

\* a wrapWith that always builds a new wrapper
wrapWithNew(h, t, errCode, pre) ==
    IF errCode = Nil THEN <<errCode, h>> ELSE newWithError(h, t, errCode, pre)

\* a wrapWith that does not look at nil
wrapWithNoNilCheck(h, t, errCode, pre) ==
    IF WrapInPlaceOK(h, errCode) THEN <<errCode, WrapInPlace(h, errCode, pre)>>
    ELSE newWithError(h, t, errCode, pre)

\* wrapWith / wrapUserWith / wrapOpWith (t is "code", "user", "op"):
\* <<the result, the heap after>>
wrapWith(h, t, errCode, pre) ==
    IF errCode = Nil THEN <<errCode, h>>
    ELSE IF WrapInPlaceOK(h, errCode) THEN <<errCode, WrapInPlace(h, errCode, pre)>>
    ELSE newWithError(h, t, errCode, pre)

\* the message errors.WrapfFn formats: msg with its %s verb replaced by the
\* argument
Sprintf(msg, args) == <<msg, " ">> \o args

\* the message slogerr.WrapsFn formats: msg and the attributes key=value
Slog(msg, args) == <<msg, " ", args[1], "=", args[2]>>

\* the wrap function a combinator builds. wrapG: errors.WrapFn(msg) without
\* arguments, errors.WrapfFn(msg, args...) with them. style is "Wrap",
\* "Wrapf" or "Wraps".
wrapPrefix(style, msg, args) ==
    IF style = "Wraps" THEN Slog(msg, args)
    ELSE IF Len(args) = 0 THEN <<msg>>
    ELSE Sprintf(msg, args)

-----------------------------------------------------------------------------
(* operation.go, user.go: the labels *)

\* The type implements HasOperation
HasOperation(e) ==
    \/ e.k = "op"
    \/ e.k = "leaf" /\ e.hasOp
    \/ e.k = "wrapped" /\ e.t = "op"

\* The type implements HasUserMsg
HasUserMsg(e) ==
    \/ e.k = "user"
    \/ e.k = "multi" /\ "user" \in DOMAIN e
    \/ e.k = "leaf" /\ e.hasUser
    \/ e.k = "wrapped" /\ e.t = "user"

RECURSIVE GetOperationM(_)
\* the GetOperation() method of a type that implements HasOperation
GetOperationM(e) ==
    CASE e.k = "op" -> e.Op
      [] e.k = "leaf" -> e.op
      [] e.k = "wrapped" -> GetOperationM(e.With)

RECURSIVE GetUserMsgM(_)
\* the GetUserMsg() method of a type that implements HasUserMsg
GetUserMsgM(e) ==
    CASE e.k = "user" -> e.Msg
      [] e.k = "leaf" -> e.user
      [] e.k = "wrapped" -> GetUserMsgM(e.With)
      [] e.k = "multi" -> GetUserMsgM(e.ErrCode)

RECURSIVE Operation(_, _)
\* a lookup that passes over an empty label
OperationNonEmpty(h, v) ==
    IF HasOperation(v) /\ GetOperationM(v) # "" THEN GetOperationM(v)
    ELSE IF IsUnwrapError(v) THEN Operation(h, Unwrap(h, v))
    ELSE ""

\* a lookup that prefers the label nearest to the cause
OperationInnermost(h, v) ==
    IF IsUnwrapError(v) /\ Operation(h, Unwrap(h, v)) # ""
    THEN Operation(h, Unwrap(h, v))
    ELSE IF HasOperation(v) THEN GetOperationM(v)
    ELSE ""

\* Operation(v)
Operation(h, v) ==
    IF HasOperation(v) THEN GetOperationM(v)
    ELSE IF IsUnwrapError(v) THEN Operation(h, Unwrap(h, v))
    ELSE ""

RECURSIVE GetUserMsg(_, _)
\* GetUserMsg(v)
GetUserMsg(h, v) ==
    IF HasUserMsg(v) THEN GetUserMsgM(v)
    ELSE IF IsUnwrapError(v) THEN GetUserMsg(h, Unwrap(h, v))
    ELSE ""

\* a WithUserMsg that gives nil for a nil err and checks nothing else
WithUserMsgOrNil(msg, err) ==
    [panics |-> FALSE,
     out |-> IF err = Nil THEN Nil ELSE UserMsgErrCode(msg, err)]

\* WithUserMsg(msg, err): it panics, or returns out
WithUserMsg(msg, err) ==
    IF err = Nil THEN [panics |-> TRUE, out |-> Nil]
    ELSE IF msg = "" THEN [panics |-> TRUE, out |-> Nil]
    ELSE [panics |-> FALSE, out |-> UserMsgErrCode(msg, err)]

\* UserMsg(msg).AddTo(err)
AddTo(msg, err) == WithUserMsg(msg, err)

-----------------------------------------------------------------------------
(* codes.go: ClientData *)

\* The type implements HasClientData
HasClientData(e) == e.k \in {"user", "ewrap"}

RECURSIVE ClientData(_, _)
RECURSIVE clientDataLoop(_, _)
\* the GetClientData() method of a type that implements HasClientData
GetClientDataM(h, e) ==
    CASE e.k = "user" -> ClientData(h, e.Err)
      [] e.k = "ewrap" -> h[e.ref]

\* the loop of ClientData: unwrap while the error unwraps, until an error
\* that has client data
clientDataLoop(h, err) ==
    IF IsUnwrapError(err)
    THEN IF HasClientData(Unwrap(h, err))
         THEN GetClientDataM(h, Unwrap(h, err))
         ELSE clientDataLoop(h, Unwrap(h, err))
    ELSE Nil

\* a ClientData that gives the error itself when it finds no client data
ClientDataOrSelf(h, errCode) ==
    IF HasClientData(errCode) THEN GetClientDataM(h, errCode)
    ELSE IF clientDataLoop(h, errCode) = Nil THEN errCode
    ELSE clientDataLoop(h, errCode)

\* ClientData(errCode): nil without client data
ClientData(h, errCode) ==
    IF HasClientData(errCode) THEN GetClientDataM(h, errCode)
    ELSE clientDataLoop(h, errCode)

-----------------------------------------------------------------------------
(* codes.go: JSONFormat *)

\* the JSONFormat struct; Msg is a string of tokens as Error() is
JSONFormat(code, msg, data, op, others) ==
    [Code |-> code, Msg |-> msg, Data |-> data, Operation |-> op, Others |-> others]

\* operationClientData(errCode): <<op, data>>
operationClientData(h, errCode) ==
    IF Operation(h, errCode) = "" /\ ClientData(h, errCode) # Nil
    THEN <<Operation(h, ClientData(h, errCode)), ClientData(h, errCode)>>
    ELSE <<Operation(h, errCode), ClientData(h, errCode)>>

\* a message that is always the Error() string
jsonMsgError(h, errCode) == Error(h, errCode)

\* the msg of newJSONFormat: GetUserMsg(errCode), errCode.Error() when empty
jsonMsg(h, errCode) ==
    IF GetUserMsg(h, errCode) = "" THEN Error(h, errCode)
    ELSE <<GetUserMsg(h, errCode)>>

RECURSIVE newJSONFormat(_, _, _, _)
\* newJSONFormat(errCode, recur)
newJSONFormat(h, ch, errCode, recur) ==
    JSONFormat(CodeStr(ch, Code(errCode)),
               jsonMsg(h, errCode),
               operationClientData(h, errCode)[2],
               operationClientData(h, errCode)[1],
               IF recur THEN <<>>
               ELSE [i \in 1..(Len(ErrorCodes(h, errCode)) - 1) |->
                        newJSONFormat(h, ch, ErrorCodes(h, errCode)[i + 1], TRUE)])

\* a projection of the primary code only
NewJSONFormatPrimary(h, ch, errCode) == newJSONFormat(h, ch, errCode, TRUE)

\* NewJSONFormat(errCode)
NewJSONFormat(h, ch, errCode) == newJSONFormat(h, ch, errCode, FALSE)

-----------------------------------------------------------------------------
(* The walks of CodeChain, ErrorCodes, ClientData, Operation, GetUserMsg *)

\* the functions that walk the unwrap structure of an error
WalkFns == {"CodeChain", "ErrorCodes", "ClientData", "Operation", "GetUserMsg"}

\* a walk that stays at the value it visits
walkNextStay(fn, h, v) == <<v>>

\* one iteration of the function fn at the value v: the values it goes on
\* to, none when this branch of the walk ends at v.
\*   CodeChain: ends at an ErrorCode, walks every member of a group,
\*     follows Unwrap otherwise
\*   ErrorCodes: errwrap.UnwrapGroups follows Unwrap, then the members
\*   ClientData: GetClientData of UserMsgErrCode is ClientData(e.Err), any
\*     other GetClientData ends the walk; follows Unwrap otherwise
\*   Operation, GetUserMsg: end at a value with the label, follow Unwrap
\*     otherwise
walkNext(fn, h, v) ==
    CASE fn = "CodeChain" ->
            IF IsErrorCode(v) THEN <<>>
            ELSE IF IsUnwrapsError(v) THEN NonNil(UnwrapGroup(v))
            ELSE NonNil(<<Unwrap(h, v)>>)
      [] fn = "ErrorCodes" ->
            NonNil(<<Unwrap(h, v)>>) \o NonNil(UnwrapGroup(v))
      [] fn = "ClientData" ->
            IF HasClientData(v)
            THEN IF v.k = "user" THEN <<v.Err>> ELSE <<>>
            ELSE IF IsUnwrapError(v) THEN NonNil(<<Unwrap(h, v)>>)
            ELSE <<>>
      [] fn = "Operation" ->
            IF HasOperation(v) THEN <<>>
            ELSE IF IsUnwrapError(v) THEN NonNil(<<Unwrap(h, v)>>)
            ELSE <<>>
      [] fn = "GetUserMsg" ->
            IF HasUserMsg(v) THEN <<>>
            ELSE IF IsUnwrapError(v) THEN NonNil(<<Unwrap(h, v)>>)
            ELSE <<>>

-----------------------------------------------------------------------------
(* goa/goa.go: serviceErrorToCode and its codeCache *)

\* var codeCache map[string]errcode.Code: nil, no name in it
NilMap == <<>>

\* a request that the adapter is not handling
Idle == [pc |-> "idle"]

\* the names that serviceErrorToCode gives InvalidInputCode
PayloadNames ==
    { "missing_payload", "decode_payload", "invalid_field_type", "missing_field",
      "invalid_enum_value", "invalid_format", "invalid_pattern", "invalid_range",
      "invalid_length" }

\* http.StatusBadRequest, http.StatusInternalServerError
StatusBadRequest == 400
StatusInternalServerError == 500

\* serviceErrorToCode up to the cache: the code it returns at once, NilCode
\* when it goes on to codeCache (here for the status 400)
serviceErrorToCodeEarly(goaErr) ==
    IF goaErr.Name \in PayloadNames THEN InvalidInputCode
    ELSE IF goaErr.StatusCode = StatusInternalServerError THEN InternalCode
    ELSE NilCode

-----------------------------------------------------------------------------
(* The application: it builds error values and resolves them *)

\* no library call made yet
NoCall == [fn |-> "none", arg |-> Nil, out |-> Nil]

\* the leaf codes of the application's own error types
LeafCodes == {NotFoundCode, InputMissingCode, InvalidInputCode}

\* the errors an application creates directly: errors.New and its own types
Prims == {New(<<"ignore">>)} \cup {MinimalError(c) : c \in LeafCodes}

\* what a call can be given: a fresh error or one the application holds
Operands == Prims \cup errs

\* the application keeps v
Hold(v) == errs' = errs \cup {v}

Room == Cardinality(errs) < MaxErrs

Init ==
    /\ heap = <<>>
    /\ codeHeap = InitCodeHeap
    /\ errs = {}
    /\ codes = InitCodes
    /\ metaData = InitMetaData
    /\ codeCache = NilMap
    /\ reqs = [r \in 1..MaxReqs |-> Idle]
    /\ call = NoCall

\* errors.Wrap(x, "ann"): an annotation layer above x
Annotate(x) ==
    /\ Room
    /\ Hold(WithMessage(<<"ann">>, x))
    /\ call' = NoCall
    /\ UNCHANGED <<heap, codeHeap, codes, metaData, codeCache, reqs>>

\* MultiErrors{Multi: []error{x, y}}, one member at least a fresh error
Group(x, y) ==
    /\ Room
    /\ x \in Prims \/ y \in Prims
    /\ Hold(MultiErrors(<<x, y>>))
    /\ call' = NoCall
    /\ UNCHANGED <<heap, codeHeap, codes, metaData, codeCache, reqs>>

\* Combine(x, y) of two fresh errors, the first an ErrorCode
DoCombine(x, y) ==
    /\ Room
    /\ IsErrorCode(x)
    /\ Hold(Combine(x, <<y>>))
    /\ call' = [fn |-> "Combine", arg |-> <<x, y>>, out |-> Combine(x, <<y>>)]
    /\ UNCHANGED <<heap, codeHeap, codes, metaData, codeCache, reqs>>

\* CodeChain(x); the application keeps a result that is not nil
DoCodeChain(x) ==
    /\ call' = [fn |-> "CodeChain", arg |-> x, out |-> CodeChain(heap, x)]
    /\ IF CodeChain(heap, x) # Nil /\ Room
       THEN Hold(CodeChain(heap, x))
       ELSE UNCHANGED errs
    /\ UNCHANGED <<heap, codeHeap, codes, metaData, codeCache, reqs>>

\* GetCode(x)
DoGetCode(x) ==
    /\ call' = [fn |-> "GetCode", arg |-> x, out |-> GetCode(heap, x)]
    /\ UNCHANGED <<heap, codeHeap, codes, metaData, errs, codeCache, reqs>>

\* ErrorCodes(x)
DoErrorCodes(x) ==
    /\ call' = [fn |-> "ErrorCodes", arg |-> x, out |-> ErrorCodes(heap, x)]
    /\ UNCHANGED <<heap, codeHeap, codes, metaData, errs, codeCache, reqs>>

Next ==
    \/ \E x \in Operands : Annotate(x)
    \/ \E x, y \in Operands : Group(x, y)
    \/ \E x, y \in Prims : DoCombine(x, y)
    \/ \E x \in Operands \cup {Nil} : DoCodeChain(x)
    \/ \E x \in errs \cup {Nil} : DoGetCode(x)
    \/ \E x \in errs \cup {Nil} : DoErrorCodes(x)

Spec == Init /\ [][Next]_vars

-----------------------------------------------------------------------------
(* Properties of chain resolution, checked under Spec *)

RECURSIVE FirstCode(_, _)
\* the first ErrorCode met walking from e toward the cause by single
\* unwraps, Nil when the walk ends without one
FirstCode(h, e) ==
    IF e = Nil THEN Nil
    ELSE IF IsErrorCode(e) THEN e
    ELSE FirstCode(h, Unwrap(h, e))

RECURSIVE LastNode(_, _)
\* the node at which single unwrapping from a non-nil e ends
LastNode(h, e) == IF Unwrap(h, e) = Nil THEN e ELSE LastNode(h, Unwrap(h, e))

RECURSIVE Resolves(_, _)
\* some value reached from e by single unwraps is an ErrorCode or a group
\* with a member that resolves
Resolves(h, e) ==
    /\ e # Nil
    /\ \/ IsErrorCode(e)
       \/ /\ IsUnwrapsError(e)
          /\ \E i \in 1..Len(UnwrapGroup(e)) : Resolves(h, UnwrapGroup(e)[i])
       \/ Resolves(h, Unwrap(h, e))

\* the last call was CodeChain(top) for a top that is no ErrorCode and whose
\* unwrap chain reaches one
C1Case ==
    /\ call.fn = "CodeChain"
    /\ call.arg # Nil
    /\ ~IsErrorCode(call.arg)
    /\ FirstCode(heap, call.arg) # Nil

\* C1: for a non-nil top that is no ErrorCode but whose single-cause unwrap
\* chain reaches an ErrorCode c (the first one met), CodeChain(top) is a
\* ChainContext whose Error() is top.Error() and whose Code() is c.Code(),
\* whatever the number of annotation layers above c.
C1_ChainContextKeepsTopMessage ==
    C1Case =>
        /\ call.out.k = "chain"
        /\ Error(heap, call.out) = Error(heap, call.arg)
        /\ Code(call.out) = Code(FirstCode(heap, call.arg))

\* C1 happens: two annotation layers above the code, and the message of the
\* result is not the message of the code
C1_Witness ==
    /\ C1Case
    /\ call.arg.k = "msg"
    /\ call.arg.cause.k = "msg"
    /\ call.out.k = "chain"
    /\ Error(heap, call.out) = <<"ann", ": ", "ann", ": ", "error">>
    /\ Error(heap, call.out) # Error(heap, FirstCode(heap, call.arg))

\* C2: for a non-nil e that is an ErrorCode, CodeChain(e) is e itself, with
\* no ChainContext around it, so that Code() and Error() are those of e; also
\* when e is a group too (Unwrap() []error), whose members are not looked at.
C2_ErrorCodeReturnedAsIs ==
    (call.fn = "CodeChain" /\ call.arg # Nil /\ IsErrorCode(call.arg)) =>
        /\ call.out = call.arg
        /\ Code(call.out) = Code(call.arg)
        /\ Error(heap, call.out) = Error(heap, call.arg)

\* C2 happens: CodeChain of an ErrorCode that is a group as well
C2_Witness ==
    /\ call.fn = "CodeChain"
    /\ IsErrorCode(call.arg)
    /\ IsUnwrapsError(call.arg)
    /\ call.out = call.arg

\* C3: CodeChain(err) is nil when err is nil or when nothing reached by
\* single unwrapping from err is an ErrorCode or a group with a member that
\* resolves to a code; GetCode(err) is then the nil code and ErrorCodes(err)
\* is empty.
C3_NothingFoundIsNil ==
    (call.fn \in {"CodeChain", "GetCode", "ErrorCodes"} /\ ~Resolves(heap, call.arg)) =>
        /\ call.fn = "CodeChain" => call.out = Nil
        /\ call.fn = "GetCode" => call.out = NilCode
        /\ call.fn = "ErrorCodes" => call.out = <<>>

\* C3 happens: CodeChain of an annotated group of errors without a code
C3_Witness ==
    /\ call.fn = "CodeChain"
    /\ call.arg.k = "msg"
    /\ LastNode(heap, call.arg).k = "group"
    /\ ~Resolves(heap, call.arg)
    /\ call.out = Nil

\* the members of group g that resolve, each resolved on its own, in order
ResolvedMembers(h, g) ==
    LET all == [i \in 1..Len(UnwrapGroup(g)) |-> CodeChain(h, UnwrapGroup(g)[i])]
    IN  SelectSeq(all, LAMBDA r : r # Nil)

\* the last call was CodeChain(err) and the walk from err meets no ErrorCode
\* and ends at a group
C4Case ==
    /\ call.fn = "CodeChain"
    /\ call.arg # Nil
    /\ FirstCode(heap, call.arg) = Nil
    /\ IsUnwrapsError(LastNode(heap, call.arg))

\* the group of the tests: a plain error and an annotated code
C4Example ==
    MultiErrors(<<New(<<"ignore">>), WithMessage(<<"ann">>, MinimalError(NotFoundCode))>>)

\* C4: a node of the walk that is a group and no ErrorCode resolves to its
\* single resolving member, or to Combine(first, rest...) of its resolving
\* members in member order (members that resolve to nil are skipped); the
\* result is a ChainContext whose Top is the input, so that the group
\* [plain error, annotated code] gives ChainContext{Top: group,
\* ErrorCode: ChainContext{Top: annotated code, ...}}.
C4_GroupResolution ==
    /\ C4Case =>
        LET m == ResolvedMembers(heap, LastNode(heap, call.arg))
        IN  /\ Len(m) = 0 => call.out = Nil
            /\ Len(m) = 1 => call.out = ChainContext(m[1], call.arg)
            /\ Len(m) > 1 => call.out = ChainContext(Combine(m[1], Tail(m)), call.arg)
            /\ Len(m) > 1 => /\ call.out.ErrorCode.k = "multi"
                             /\ call.out.ErrorCode.ErrCode = m[1]
                             /\ call.out.ErrorCode.rest = Tail(m)
    /\ (call.fn = "CodeChain" /\ call.arg = C4Example) =>
        call.out = ChainContext(
                       ChainContext(MinimalError(NotFoundCode), C4Example.Multi[2]),
                       C4Example)

\* C4 happens: a group of an annotated code and a code, both kept in order
C4_Witness ==
    /\ C4Case
    /\ call.arg.k = "group"
    /\ call.out.k = "chain"
    /\ call.out.Top = call.arg
    /\ call.out.ErrorCode.k = "multi"
    /\ call.out.ErrorCode.ErrCode.k = "chain"
    /\ Len(call.out.ErrorCode.rest) = 1

\* the last call was CodeChain of a group of two ErrorCode members, each a
\* single code, whose codes (full paths) are distinct
C5Case ==
    /\ call.fn = "CodeChain"
    /\ call.arg.k = "group"
    /\ Len(call.arg.Multi) = 2
    /\ \A i \in 1..2 : call.arg.Multi[i].k = "leaf"
    /\ CodeStr(codeHeap, Code(call.arg.Multi[1])) #
           CodeStr(codeHeap, Code(call.arg.Multi[2]))

\* C5: for a group (no ErrorCode itself) of two ErrorCode members with
\* distinct codes, CodeChain gives an aggregate r such that ErrorCodes(r) has
\* length 2 and lists the codes of the two members in member order.
C5_TwoMembersTwoCodes ==
    C5Case =>
        LET r == ErrorCodes(heap, call.out)
        IN  /\ Len(r) = 2
            /\ Code(r[1]) = Code(call.arg.Multi[1])
            /\ Code(r[2]) = Code(call.arg.Multi[2])

RECURSIVE DedupByPath(_, _, _)
\* the ErrorCodes of a walk, in order, without those whose full code path is
\* that of the entry kept just before
DedupByPath(ch, kept, walk) ==
    IF walk = <<>> THEN kept
    ELSE IF /\ IsErrorCode(Head(walk))
            /\ \/ kept = <<>>
               \/ CodeStr(ch, Code(kept[Len(kept)])) # CodeStr(ch, Code(Head(walk)))
         THEN DedupByPath(ch, Append(kept, Head(walk)), Tail(walk))
         ELSE DedupByPath(ch, kept, Tail(walk))

\* C6: ErrorCodes(err) lists in walk order every ErrorCode reachable from err
\* and drops a candidate only when its full code path is the full code path
\* of the entry kept just before it: consecutive repeats collapse, repeats
\* that are not adjacent stay, and adjacent entries with different full paths
\* stay even when their last segments are equal.
C6_DedupByFullPath ==
    call.fn = "ErrorCodes" =>
        call.out = DedupByPath(codeHeap, <<>>, UnwrapGroups(heap, call.arg))

-----------------------------------------------------------------------------
(* The application that wraps errors: coded errors, annotations, Wrap *)

\* the number of errors and message layers the wrapping application builds
MaxSteps == 3

\* the errors this application creates directly
WrapPrims == {New(<<"underlying">>), MinimalError(InputMissingCode)}

WrapOperands == WrapPrims \cup errs

\* the nine combinators: the type they take (t) and how they format (style)
Combinators ==
    { [fn |-> "Wrap",      t |-> "code", style |-> "Wrap",  args |-> <<>>],
      [fn |-> "Wrapf",     t |-> "code", style |-> "Wrapf", args |-> <<"arg">>],
      [fn |-> "Wraps",     t |-> "code", style |-> "Wraps", args |-> <<"arg", "1">>],
      [fn |-> "WrapUser",  t |-> "user", style |-> "Wrap",  args |-> <<>>],
      [fn |-> "WrapfUser", t |-> "user", style |-> "Wrapf", args |-> <<"arg">>],
      [fn |-> "WrapsUser", t |-> "user", style |-> "Wraps", args |-> <<"arg", "1">>],
      [fn |-> "WrapOp",    t |-> "op",   style |-> "Wrap",  args |-> <<>>],
      [fn |-> "WrapfOp",   t |-> "op",   style |-> "Wrapf", args |-> <<"arg">>],
      [fn |-> "WrapsOp",   t |-> "op",   style |-> "Wraps", args |-> <<"arg", "1">> ] }

WrapFns == {c.fn : c \in Combinators}

\* the messages given to the combinators
WrapMsgs == {"wrapped", "again"}

\* the static type of a combinator's parameter accepts x
Accepts(t, x) ==
    \/ x = Nil
    \/ t = "code" /\ IsErrorCode(x)
    \/ t = "user" /\ IsErrorCode(x) /\ HasUserMsg(x)
    \/ t = "op" /\ IsErrorCode(x) /\ HasOperation(x)

RECURSIVE msgDepth(_)
\* the number of message layers on top of a cell's error
msgDepth(e) == IF e.k = "msg" THEN 1 + msgDepth(e.cause) ELSE 0

RECURSIVE wrapLayers(_)
\* the message layers in all the cells of a heap
wrapLayers(h) == IF h = <<>> THEN 0 ELSE msgDepth(Head(h)) + wrapLayers(Tail(h))

\* the application has built less than it may
Budget == Cardinality(errs) + wrapLayers(heap) < MaxSteps

RECURSIVE Root(_, _)
\* the cause at the end of the unwrap chain of e
Root(h, e) == IF Unwrap(h, e) = Nil THEN e ELSE Root(h, Unwrap(h, e))

\* NewCodedError(x, code), as NewBadRequestErr / NewNotFoundErr call it
DoNewCodedError(x, code) ==
    /\ Budget
    /\ x # Nil
    /\ Hold(NewCodedError(heap, codeHeap, x, code)[1])
    /\ heap' = NewCodedError(heap, codeHeap, x, code)[2]
    /\ call' = [fn |-> "NewCodedError", arg |-> x, code |-> code,
                out |-> NewCodedError(heap, codeHeap, x, code)[1]]
    /\ UNCHANGED <<codeHeap, codes, metaData, codeCache, reqs>>

\* WithUserMsg(msg, x) for a non-empty msg and a non-nil x
DoWithUserMsg(msg, x) ==
    /\ Budget
    /\ IsErrorCode(x)
    /\ msg # ""
    /\ Hold(UserMsgErrCode(msg, x))
    /\ call' = [fn |-> "WithUserMsg", arg |-> x, label |-> msg,
                out |-> UserMsgErrCode(msg, x)]
    /\ UNCHANGED <<heap, codeHeap, codes, metaData, codeCache, reqs>>

\* Op(operation).AddTo(x) for a non-nil x
DoOp(operation, x) ==
    /\ Budget
    /\ IsErrorCode(x)
    /\ Hold(opErrCode(x, operation))
    /\ call' = [fn |-> "Op", arg |-> x, label |-> operation,
                out |-> opErrCode(x, operation)]
    /\ UNCHANGED <<heap, codeHeap, codes, metaData, codeCache, reqs>>

RECURSIVE UnwrapChain(_, _)
\* e and what repeated unwrapping of e gives, in order
UnwrapChain(h, e) == IF e = Nil THEN <<>> ELSE <<e>> \o UnwrapChain(h, Unwrap(h, e))

\* one of the nine combinators applied to x (possibly nil) with msg
DoWrap(c, x, msg) ==
    LET pre == wrapPrefix(c.style, msg, c.args)
        r == wrapWith(heap, c.t, x, pre)
    IN  /\ Accepts(c.t, x)
        /\ Budget
        /\ heap' = r[2]
        /\ errs' = IF r[1] = Nil THEN errs ELSE errs \cup {r[1]}
        /\ call' = [fn |-> c.fn, arg |-> x, pre |-> pre, out |-> r[1],
                    was |-> IF x = Nil THEN <<>> ELSE Error(heap, x),
                    root |-> IF x = Nil THEN Nil ELSE Root(heap, x),
                    chain |-> UnwrapChain(heap, x)]
        /\ UNCHANGED <<codeHeap, codes, metaData, codeCache, reqs>>

NextWrap ==
    \/ \E x \in WrapOperands : DoNewCodedError(x, InvalidInputCode)
    \/ \E x \in WrapOperands : DoWithUserMsg("user", x)
    \/ \E x \in WrapOperands : DoOp("op", x)
    \/ \E c \in Combinators, x \in WrapOperands \cup {Nil}, msg \in WrapMsgs :
            DoWrap(c, x, msg)

SpecWrap == Init /\ [][NextWrap]_vars

-----------------------------------------------------------------------------
(* Properties of wrapping, checked under SpecWrap *)

RECURSIVE AnnPrefix(_)
\* what Error() of e writes for the annotation layers (user message,
\* operation) that e has above the first value that is no annotation
AnnPrefix(e) ==
    CASE e.k = "user" -> <<e.Msg, ": ">> \o AnnPrefix(e.Err)
      [] e.k = "op" -> <<e.Op, ": ">> \o AnnPrefix(e.ErrorCode)
      [] OTHER -> <<>>

\* the last call was Wrap(e, m) for a non-nil e
C7Case == call.fn = "Wrap" /\ call.arg # Nil

\* e of the last call is an annotation above an error that wraps in place
AnnotatedInPlace(e) == ~IsErrorWrapper(e) /\ asErrorWrapper(heap, e) # 0

\* C7 as stated: for every non-nil ErrorCode e and message m,
\* Wrap(e, m).Error() is m + ": " + s where s is e.Error() before the call,
\* Wrap(e, m).Code() is e.Code() and unwrapping the result reaches the
\* original cause, also when e is an annotation (user message, operation)
\* around an error that wraps in place.
C7_WrapPrefixesMessage ==
    C7Case =>
        /\ Error(heap, call.out) = call.pre \o <<": ">> \o call.was
        /\ Code(call.out) = Code(call.arg)
        /\ Root(heap, call.out) = call.root

\* C7 amended: Wrap(e, m).Code() is e.Code() and unwrapping the result
\* reaches the original cause; Wrap(e, m).Error() is m + ": " + s when e
\* itself wraps in place or when nothing on its unwrap chain does; when e is
\* an annotation around an error that wraps in place the result is e and m
\* is written at that error, after the prefixes of the annotations
\* ("user: wrapped: underlying").
C7_WrapInsertsMessage ==
    C7Case =>
        /\ Code(call.out) = Code(call.arg)
        /\ Root(heap, call.out) = call.root
        /\ ~AnnotatedInPlace(call.arg) =>
               Error(heap, call.out) = call.pre \o <<": ">> \o call.was
        /\ AnnotatedInPlace(call.arg) =>
               LET n == Len(AnnPrefix(call.arg))
               IN  /\ n > 0
                   /\ call.out = call.arg
                   /\ Error(heap, call.out) =
                          SubSeq(call.was, 1, n) \o call.pre \o <<": ">>
                              \o SubSeq(call.was, n + 1, Len(call.was))

\* C7 happens: Wrap of a user message around a coded error
C7_Witness ==
    /\ C7Case
    /\ call.arg.k = "user"
    /\ AnnotatedInPlace(call.arg)
    /\ call.was = <<"user", ": ", "underlying">>
    /\ Error(heap, call.out) = <<"user", ": ", "wrapped", ": ", "underlying">>

\* C8: each of the nine combinators returns nil for a nil error code,
\* whatever the message and the arguments, and the wrap function is not
\* called: no cell is written or allocated.
C8_NilInNilOut ==
    [][(call'.fn \in WrapFns /\ call'.arg = Nil) =>
            /\ call'.out = Nil
            /\ heap' = heap
            /\ errs' = errs]_vars

\* C8 happens: a combinator was given nil while cells exist
C8_Witness ==
    /\ call.fn \in WrapFns
    /\ call.arg = Nil
    /\ call.out = Nil
    /\ Len(call.pre) > 1
    /\ Len(heap) > 0

\* the last call was Wrap, WrapUser or WrapOp of a non-nil e
C9Case == call.fn \in {"Wrap", "WrapUser", "WrapOp"} /\ call.arg # Nil

\* the held values other than v that read cell ref
Sharers(ref, v) == {w \in errs \ {v} : IsErrorWrapper(w) /\ w.ref = ref}

-----------------------------------------------------------------------------
(* The application that labels errors: operations and user messages *)

\* OpErrorHas{} and UserMsgError{} of the tests
OpErrorHas == UserError(InputMissingCode, TRUE, "has", FALSE, "")

UserMsgError == UserError(InputMissingCode, FALSE, "", TRUE, "user")

\* the errors this application creates directly
LabelPrims == {MinimalError(InputMissingCode), OpErrorHas, UserMsgError}

LabelOperands == LabelPrims \cup errs

\* the labels given to Op and WithUserMsg
Labels == {"a", "b"}

\* Operation(v)
DoOperation(v) ==
    /\ call' = [fn |-> "Operation", arg |-> v, out |-> Operation(heap, v)]
    /\ UNCHANGED <<heap, codeHeap, codes, metaData, errs, codeCache, reqs>>

\* GetUserMsg(v)
DoGetUserMsg(v) ==
    /\ call' = [fn |-> "GetUserMsg", arg |-> v, out |-> GetUserMsg(heap, v)]
    /\ UNCHANGED <<heap, codeHeap, codes, metaData, errs, codeCache, reqs>>

NextLabel ==
    \/ \E x \in LabelOperands : DoNewCodedError(x, InvalidInputCode)
    \/ \E x \in LabelOperands, l \in Labels : DoWithUserMsg(l, x)
    \/ \E x \in LabelOperands, l \in Labels : DoOp(l, x)
    \/ \E v \in errs \cup {Nil} : DoOperation(v)
    \/ \E v \in errs \cup {Nil} : DoGetUserMsg(v)

SpecLabel == Init /\ [][NextLabel]_vars

-----------------------------------------------------------------------------
(* Properties of the labels, checked under SpecLabel *)

\* the operation v carries itself, without unwrapping: <<label>> or <<>>
OwnOp(v) ==
    IF v.k = "op" THEN <<v.Op>>
    ELSE IF v.k = "leaf" /\ v.hasOp THEN <<v.op>>
    ELSE <<>>

\* the user message v carries itself, without unwrapping
OwnUserMsg(v) ==
    IF v.k = "user" THEN <<v.Msg>>
    ELSE IF v.k = "leaf" /\ v.hasUser THEN <<v.user>>
    ELSE <<>>

RECURSIVE OpLabels(_)
\* the operations carried along an unwrap chain, outermost first
OpLabels(chain) ==
    IF chain = <<>> THEN <<>> ELSE OwnOp(Head(chain)) \o OpLabels(Tail(chain))

RECURSIVE UserLabels(_)
\* the user messages carried along an unwrap chain, outermost first
UserLabels(chain) ==
    IF chain = <<>> THEN <<>> ELSE OwnUserMsg(Head(chain)) \o UserLabels(Tail(chain))

\* the first label, the empty string without one
FirstOr(labels) == IF labels = <<>> THEN "" ELSE labels[1]

\* C10: when annotations of one kind are applied repeatedly (Op over Op,
\* WithUserMsg over WithUserMsg, or over an error that has the label itself,
\* also through wrappers that only unwrap), Operation(v) / GetUserMsg(v) give
\* the outermost, most recently applied label; the inner label is not erased:
\* the lookup that starts from an inner value gives the label outermost
\* there.
C10_OutermostLabelWins ==
    /\ call.fn = "Operation" =>
        LET chain == UnwrapChain(heap, call.arg)
        IN  /\ call.out = FirstOr(OpLabels(chain))
            /\ \A i \in 1..Len(chain) :
                   Operation(heap, chain[i]) =
                       FirstOr(OpLabels(SubSeq(chain, i, Len(chain))))
    /\ call.fn = "GetUserMsg" =>
        LET chain == UnwrapChain(heap, call.arg)
        IN  /\ call.out = FirstOr(UserLabels(chain))
            /\ \A i \in 1..Len(chain) :
                   GetUserMsg(heap, chain[i]) =
                       FirstOr(UserLabels(SubSeq(chain, i, Len(chain))))

\* C10 happens: Op(a) over a coded error over Op(b): the lookup gives a, and
\* b from the inner value
C10_Witness ==
    /\ call.fn = "Operation"
    /\ call.arg.k = "op"
    /\ call.arg.Op = "a"
    /\ call.arg.ErrorCode.k = "coded"
    /\ Len(OpLabels(UnwrapChain(heap, call.arg))) > 1
    /\ OpLabels(UnwrapChain(heap, call.arg))[2] = "b"
    /\ Operation(heap, call.arg.ErrorCode) = "b"
    /\ call.out = "a"

-----------------------------------------------------------------------------
(* The application that combines errors: Combine, CombineUser, ClientData *)

\* the number of others given to Combine / CombineUser
MaxOthers == 2

\* the sequences over S of length n at most
SeqsUpTo(S, n) == UNION {[1..m -> S] : m \in 0..n}

\* the errors given as others
CombineMembers ==
    {New(<<"ignore">>), MinimalError(InputMissingCode), UserMsgError}

\* the errors given as initial to Combine
CombineInitials ==
    {Nil, MinimalError(NotFoundCode), UserMsgError} \cup {e \in errs : e.k = "ewrap"}

\* &ErrorWrapper{Err: x}, once for an x
DoErrorWrapper(x) ==
    /\ Room
    /\ \A e \in errs : e.k = "ewrap" => heap[e.ref] # x
    /\ heap' = Append(heap, x)
    /\ Hold(ErrorWrapper(Len(heap) + 1))
    /\ call' = NoCall
    /\ UNCHANGED <<codeHeap, codes, metaData, codeCache, reqs>>

\* Combine(initial, others...)
DoCombineOthers(initial, others) ==
    /\ call' = [fn |-> "Combine", initial |-> initial, others |-> others,
                out |-> Combine(initial, others)]
    /\ UNCHANGED <<heap, codeHeap, codes, metaData, errs, codeCache, reqs>>

\* CombineUser(initial, others...)
DoCombineUser(initial, others) ==
    /\ initial = Nil \/ IsUserCode(initial)
    /\ call' = [fn |-> "CombineUser", initial |-> initial, others |-> others,
                out |-> CombineUser(initial, others)]
    /\ UNCHANGED <<heap, codeHeap, codes, metaData, errs, codeCache, reqs>>

\* ClientData(a) of the aggregate a that the last call returned
DoClientData ==
    /\ call.fn \in {"Combine", "CombineUser"}
    /\ call.out # Nil
    /\ call' = [fn |-> "ClientData", arg |-> call.out, of |-> call,
                out |-> ClientData(heap, call.out)]
    /\ UNCHANGED <<heap, codeHeap, codes, metaData, errs, codeCache, reqs>>

NextCombine ==
    \/ \E x \in {New(<<"data">>), MinimalError(NotFoundCode)} : DoErrorWrapper(x)
    \/ \E initial \in CombineInitials, others \in SeqsUpTo(CombineMembers, MaxOthers) :
            DoCombineOthers(initial, others)
    \/ \E initial \in CombineInitials, others \in SeqsUpTo(CombineMembers, MaxOthers) :
            DoCombineUser(initial, others)
    \/ DoClientData

SpecCombine == Init /\ [][NextCombine]_vars

-----------------------------------------------------------------------------
(* Properties of Combine, checked under SpecCombine *)

\* C11: Combine(e) with a non-nil e and no others returns e itself, no
\* aggregate is built; the same holds for CombineUser.
C11_CombineSingleIsIdentity ==
    (/\ call.fn \in {"Combine", "CombineUser"}
     /\ call.initial # Nil
     /\ call.others = <<>>) =>
        /\ call.out = call.initial
        /\ call.out.k # "multi"

\* C11 happens: Combine of a single error that has client data
C11_Witness ==
    /\ call.fn = "Combine"
    /\ call.initial.k = "ewrap"
    /\ call.others = <<>>
    /\ call.out = call.initial

\* the indexes of the members of others that are an ErrorCode
CodeIndexes(others) == {i \in 1..Len(others) : IsErrorCode(others[i])}

\* the least element of a non-empty set of numbers
Least(S) == CHOOSE i \in S : \A j \in S : i <= j

\* others without its i-th member
Without(others, i) ==
    [j \in 1..(Len(others) - 1) |-> IF j < i THEN others[j] ELSE others[j + 1]]

\* the last call was Combine(nil, others...) with an ErrorCode among others
C12Case ==
    /\ call.fn = "Combine"
    /\ call.initial = Nil
    /\ CodeIndexes(call.others) # {}

\* C12: Combine(nil, others...) with an ErrorCode among others returns an
\* aggregate whose primary is the first member of others that is an
\* ErrorCode (Code() is the code of that member); the member is removed from
\* the rest, the other members keep their order, and Unwrap() []error lists
\* the primary and then the rest.
C12_FirstCodePromoted ==
    C12Case =>
        LET i == Least(CodeIndexes(call.others))
        IN  /\ call.out.k = "multi"
            /\ call.out.ErrCode = call.others[i]
            /\ Code(call.out) = Code(call.others[i])
            /\ call.out.rest = Without(call.others, i)
            /\ UnwrapGroup(call.out) = <<call.others[i]>> \o Without(call.others, i)

\* C12 happens: the ErrorCode promoted is not the first of others
C12_Witness ==
    /\ C12Case
    /\ Len(call.others) = 2
    /\ Least(CodeIndexes(call.others)) = 2
    /\ call.out.ErrCode = call.others[2]
    /\ call.out.rest = <<call.others[1]>>

\* the primary of a result of Combine / CombineUser
Primary(r) == IF r.k = "multi" THEN r.ErrCode ELSE r

\* the additional errors of a result of Combine / CombineUser
Additional(r) == IF r.k = "multi" THEN r.rest ELSE <<>>

\* the number of errors given to the last Combine / CombineUser
Combined ==
    (IF call.initial = Nil THEN 0 ELSE 1)
        + Cardinality({i \in 1..Len(call.others) : call.others[i] # Nil})

\* C13: every non-nil result of Combine or CombineUser, whatever the primary
\* (nil or not) and the others (ErrorCode or not), has a primary that is
\* present and is an ErrorCode, so that Code() and Error() of the aggregate
\* never dereference an absent primary; and its additional errors are
\* non-empty only when more than one error was combined.
C13_PrimaryPresent ==
    (call.fn \in {"Combine", "CombineUser"} /\ call.out # Nil) =>
        /\ Primary(call.out) # Nil
        /\ IsErrorCode(Primary(call.out))
        /\ Additional(call.out) # <<>> => Combined > 1

\* the last call was ClientData(a) for a built by Combine(primary,
\* others...) from a primary and one other at least
C14Case ==
    /\ call.fn = "ClientData"
    /\ call.of.fn = "Combine"
    /\ call.of.initial # Nil
    /\ Len(call.of.others) > 0
    /\ \A i \in 1..Len(call.of.others) : call.of.others[i] # Nil

RECURSIVE JoinErrors(_)
\* the Error() of each error of a non-empty sequence, joined with "; "
JoinErrors(es) ==
    IF Len(es) = 1 THEN Error(heap, es[1])
    ELSE Error(heap, Head(es)) \o <<"; ">> \o JoinErrors(Tail(es))

\* C14: for an aggregate a built by Combine(primary, others...) with one
\* other at least, ClientData(a) is ClientData(primary), and a.Error() is
\* the Error() of the primary and of the others, in order, joined with "; ".
C14_ClientDataOfPrimary ==
    C14Case =>
        /\ call.out = ClientData(heap, call.of.initial)
        /\ Error(heap, call.arg) = JoinErrors(<<call.of.initial>> \o call.of.others)

-----------------------------------------------------------------------------
(* The application that builds codes: NewCode, Child, IsAncestor *)

\* the number of codes the application holds
MaxCodes == 5

\* the strings given to NewCode, split at the dots
NewCodeStrs == {<<"state">>, <<"input", "missing">>}

\* the strings given to Child, split at the dots
ChildStrs ==
    { <<"missing">>, <<"input", "missing">>, <<"x", "input", "missing">>,
      <<"x", "missing">>, <<"missing", "deep">> }

\* NewCode(codeRep): a panic, or a code the application keeps
DoNewCode(paths) ==
    /\ NewCodePanics(codeHeap, paths) \/ Cardinality(codes) < MaxCodes
    /\ call' = [fn |-> "NewCode", paths |-> paths,
                panics |-> NewCodePanics(codeHeap, paths),
                out |-> IF NewCodePanics(codeHeap, paths) THEN NilCode
                        ELSE NewCode(paths[1])]
    /\ codes' = IF NewCodePanics(codeHeap, paths) THEN codes
                ELSE codes \cup {NewCode(paths[1])}
    /\ UNCHANGED <<heap, codeHeap, errs, metaData, codeCache, reqs>>

\* code.Child(childStr): a panic, or a code the application keeps
DoChild(code, paths) ==
    /\ ChildPanics(codeHeap, code, paths) \/ Cardinality(codes) < MaxCodes
    /\ call' = [fn |-> "Child", code |-> code, paths |-> paths,
                panics |-> ChildPanics(codeHeap, code, paths),
                out |-> IF ChildPanics(codeHeap, code, paths) THEN NilCode
                        ELSE Child(codeHeap, code, paths)[1]]
    /\ IF ChildPanics(codeHeap, code, paths)
       THEN UNCHANGED <<codes, codeHeap>>
       ELSE /\ codes' = codes \cup {Child(codeHeap, code, paths)[1]}
            /\ codeHeap' = Child(codeHeap, code, paths)[2]
    /\ UNCHANGED <<heap, errs, metaData, codeCache, reqs>>

\* code.IsAncestor(ancestorCode)
DoIsAncestor(code, ancestorCode) ==
    /\ call' = [fn |-> "IsAncestor", code |-> code, ancestor |-> ancestorCode,
                out |-> IsAncestor(codeHeap, code, ancestorCode)]
    /\ UNCHANGED <<heap, codeHeap, errs, codes, metaData, codeCache, reqs>>

NextCode ==
    \/ \E paths \in NewCodeStrs : DoNewCode(paths)
    \/ \E code \in codes, paths \in ChildStrs : DoChild(code, paths)
    \/ \E code, ancestorCode \in codes : DoIsAncestor(code, ancestorCode)

SpecCode == Init /\ [][NextCode]_vars

-----------------------------------------------------------------------------
(* Properties of codes, checked under SpecCode *)

\* the last call was a Child that returned
ChildReturned == call.fn = "Child" /\ ~call.panics

\* C15 as stated: for every parent and every s that Child accepts,
\* child := parent.Child(s) has child.IsAncestor(parent) and the full path
\* of child is the full path of parent + "." + s.
C15_ChildPathAppendsString ==
    ChildReturned =>
        /\ IsAncestor(codeHeap, call.out, call.code)
        /\ CodeStr(codeHeap, call.out) = CodeStr(codeHeap, call.code) \o call.paths

\* C15 amended: child.IsAncestor(parent) holds and the full path of child is
\* the full path of parent + "." + the last component of s (s may spell the
\* parent path before it): A = NewCode("input"), B = A.Child("input.missing")
\* gives B.IsAncestor(A) and the full path "input.missing".
C15_ChildPathAppendsLastComponent ==
    /\ ChildReturned =>
        /\ IsAncestor(codeHeap, call.out, call.code)
        /\ CodeStr(codeHeap, call.out) =
               CodeStr(codeHeap, call.code) \o <<call.paths[Len(call.paths)]>>
    /\ (/\ ChildReturned
        /\ call.code = NewCode("input")
        /\ call.paths = <<"input", "missing">>) =>
            CodeStr(codeHeap, call.out) = <<"input", "missing">>

\* C15 happens: InvalidInputCode.Child("input.missing")
C15_Witness ==
    /\ ChildReturned
    /\ call.code = InvalidInputCode
    /\ call.paths = <<"input", "missing">>
    /\ CodeStr(codeHeap, call.out) = <<"input", "missing">>
    /\ IsAncestor(codeHeap, call.out, call.code)

\* C16: NewCode panics for a string with a separator; Child(seg) with a
\* dotted seg panics unless all of seg before its last separator is the
\* full path of the parent ("x.input.missing" on the parent "input" is
\* rejected); an accepted seg is stored as its last component.
C16_DottedSegmentMatchesParentPath ==
    /\ call.fn = "NewCode" => (call.panics <=> Len(call.paths) > 1)
    /\ (call.fn = "Child" /\ Len(call.paths) > 1) =>
        (call.panics <=>
            SubSeq(call.paths, 1, Len(call.paths) - 1) # CodeStr(codeHeap, call.code))
    /\ ChildReturned => call.out.codeStr = call.paths[Len(call.paths)]

RECURSIVE ParentChain(_, _)
\* the code and the codes its Parent pointers lead to
ParentChain(ch, c) ==
    IF c.Parent = NilPtr THEN {c} ELSE {c} \cup ParentChain(ch, ch[c.Parent])

\* C17: c.IsAncestor(a) is true exactly when a is c or a code on the parent
\* chain of c: every code is its own ancestor, what Child builds from a
\* descendant of a reports a as ancestor, and a code reports neither a
\* descendant of its own nor a code of another branch.
C17_AncestorIffOnParentChain ==
    /\ \A c \in codes : IsAncestor(codeHeap, c, c)
    /\ call.fn = "IsAncestor" =>
        (call.out <=> call.ancestor \in ParentChain(codeHeap, call.code))
    /\ ChildReturned =>
        \A a \in codes :
            IsAncestor(codeHeap, call.code, a) => IsAncestor(codeHeap, call.out, a)
    /\ \A c, a \in codes :
        (c # a /\ IsAncestor(codeHeap, c, a)) => ~IsAncestor(codeHeap, a, c)

\* C17 happens: a code two Child steps below a top-level code reports it
C17_Witness ==
    /\ call.fn = "IsAncestor"
    /\ call.out
    /\ call.code.Parent # NilPtr
    /\ codeHeap[call.code.Parent].Parent # NilPtr
    /\ call.ancestor.Parent = NilPtr

\* C18: equality of codes, as IsAncestor uses it, is structural on (segment,
\* parent): a code with the segment of another and a parent structurally
\* equal to the parent of the other (as p.Child(s) called twice gives) is
\* equal to it, and each reports the other as ancestor.
C18_EqualityIsStructural ==
    ChildReturned =>
        \A d \in codes :
            (/\ d.Parent # NilPtr
             /\ d.codeStr = call.out.codeStr
             /\ codeHeap[d.Parent] = codeHeap[call.out.Parent]) =>
                /\ d = call.out
                /\ IsAncestor(codeHeap, call.out, d)
                /\ IsAncestor(codeHeap, d, call.out)

-----------------------------------------------------------------------------
(* The application that attaches meta data to codes *)

\* the strings given to Child while meta data is attached
MetaChildStrs == {<<"deep">>}

\* the items given to SetMetaData
MetaItems == {800, 801}

\* the HTTP codes given to SetHTTP
HTTPCodes == {800}

\* code.SetMetaData(metaData, item): err says whether an error is returned
DoSetMetaData(code, item) ==
    /\ call' = [fn |-> "SetMetaData", code |-> code, item |-> item,
                err |-> SetMetaData(codeHeap, metaData, code, item)[1]]
    /\ metaData' = SetMetaData(codeHeap, metaData, code, item)[2]
    /\ UNCHANGED <<heap, codeHeap, errs, codes, codeCache, reqs>>

\* code.SetHTTP(httpCode): the error of SetMetaData is a panic
DoSetHTTP(code, httpCode) ==
    /\ call' = [fn |-> "SetHTTP", code |-> code, item |-> httpCode,
                panics |-> SetMetaData(codeHeap, metaData, code, httpCode)[1],
                out |-> IF SetMetaData(codeHeap, metaData, code, httpCode)[1]
                        THEN NilCode ELSE code]
    /\ metaData' = SetMetaData(codeHeap, metaData, code, httpCode)[2]
    /\ UNCHANGED <<heap, codeHeap, errs, codes, codeCache, reqs>>

\* code.MetaDataFromAncestors(metaData)
DoMetaDataFromAncestors(code) ==
    /\ call' = [fn |-> "MetaDataFromAncestors", code |-> code,
                out |-> MetaDataFromAncestors(codeHeap, metaData, code)]
    /\ UNCHANGED <<heap, codeHeap, errs, codes, metaData, codeCache, reqs>>

NextMeta ==
    \/ \E code \in codes, paths \in MetaChildStrs : DoChild(code, paths)
    \/ \E code \in codes, item \in MetaItems : DoSetMetaData(code, item)
    \/ \E code \in codes, httpCode \in HTTPCodes : DoSetHTTP(code, httpCode)
    \/ \E code \in codes : DoMetaDataFromAncestors(code)

SpecMeta == Init /\ [][NextMeta]_vars

-----------------------------------------------------------------------------
(* Properties of meta data, checked under SpecMeta *)

\* the lengths of the prefixes of a full path that have an entry
EntryLens(md, path) == {n \in 1..Len(path) : SubSeq(path, 1, n) \in DOMAIN md}

\* the entry of the longest prefix of a full path that has one, or nil
NearestEntry(md, path) ==
    IF EntryLens(md, path) = {} THEN NilItem
    ELSE md[SubSeq(path, 1,
                   CHOOSE n \in EntryLens(md, path) :
                       \A m \in EntryLens(md, path) : m <= n)]

\* C19: MetaDataFromAncestors returns the value registered for the nearest
\* code, from the queried code up to the root, that has an entry (its own
\* entry before an ancestor's, a nearer ancestor's before a farther one's),
\* nil when none has; a child without an entry returns its parent's value.
C19_NearestEntryWins ==
    call.fn = "MetaDataFromAncestors" =>
        /\ call.out = NearestEntry(metaData, CodeStr(codeHeap, call.code))
        /\ (/\ call.code.Parent # NilPtr
            /\ CodeStr(codeHeap, call.code) \notin DOMAIN metaData
            /\ CodeStr(codeHeap, codeHeap[call.code.Parent]) \in DOMAIN metaData) =>
                call.out = metaData[CodeStr(codeHeap, codeHeap[call.code.Parent])]

\* C19 happens: a code without an entry, whose parent and grandparent have
\* different entries, returns the entry of its parent
C19_Witness ==
    /\ call.fn = "MetaDataFromAncestors"
    /\ call.code.Parent # NilPtr
    /\ codeHeap[call.code.Parent].Parent # NilPtr
    /\ CodeStr(codeHeap, call.code) \notin DOMAIN metaData
    /\ LET parent == codeHeap[call.code.Parent]
           grand == codeHeap[parent.Parent]
       IN  /\ CodeStr(codeHeap, parent) \in DOMAIN metaData
           /\ CodeStr(codeHeap, grand) \in DOMAIN metaData
           /\ metaData[CodeStr(codeHeap, parent)] # metaData[CodeStr(codeHeap, grand)]
           /\ call.out = metaData[CodeStr(codeHeap, parent)]

\* C20: SetMetaData on a code whose full path has an entry returns an error
\* (SetHTTP panics) and leaves the table unchanged, whatever node has the
\* path; no step changes or removes the entry of a path, so each path keeps
\* the first value set for it.
C20_FirstValueKept ==
    [][/\ \A p \in DOMAIN metaData :
            p \in DOMAIN metaData' /\ metaData'[p] = metaData[p]
       /\ (/\ call'.fn = "SetMetaData"
           /\ CodeStr(codeHeap, call'.code) \in DOMAIN metaData) =>
                call'.err /\ metaData' = metaData
       /\ (/\ call'.fn = "SetHTTP"
           /\ CodeStr(codeHeap, call'.code) \in DOMAIN metaData) =>
                call'.panics /\ metaData' = metaData]_vars

\* C20 happens: SetMetaData is refused with a value other than the one kept,
\* on a path that another node has too
C20_Witness ==
    /\ call.fn = "SetMetaData"
    /\ call.err
    /\ metaData[CodeStr(codeHeap, call.code)] # call.item
    /\ \E d \in codes :
        d # call.code /\ CodeStr(codeHeap, d) = CodeStr(codeHeap, call.code)

-----------------------------------------------------------------------------
(* The application that codes errors: NewCodedError, NewInternalErr *)

\* the errors this application creates directly
CodedPrims == {New(<<"boom">>)} \cup {MinimalError(c) : c \in codes}

CodedOperands == CodedPrims \cup errs

\* the codes given to NewCodedError: NewInvalidInputErr, NewNotFoundErr
GivenCodes == {InvalidInputCode, NotFoundCode}

\* NewInternalErr(x) for a non-nil x
DoNewInternalErr(x) ==
    /\ Room
    /\ x # Nil
    /\ Hold(internalStackCode(heap, codeHeap, InternalCode, x)[1])
    /\ heap' = internalStackCode(heap, codeHeap, InternalCode, x)[2]
    /\ call' = [fn |-> "NewInternalErr", arg |-> x, code |-> InternalCode,
                out |-> internalStackCode(heap, codeHeap, InternalCode, x)[1]]
    /\ UNCHANGED <<codeHeap, codes, metaData, codeCache, reqs>>

NextCoded ==
    \/ DoNewCode(<<"internal">>)
    \/ \E code \in codes \cap {InternalCode} : DoChild(code, <<"internal", "unavailable">>)
    \/ \E x \in CodedOperands, code \in GivenCodes :
            Room /\ DoNewCodedError(x, code)
    \/ \E x \in CodedOperands : DoNewInternalErr(x)

SpecCoded == Init /\ [][NextCoded]_vars

-----------------------------------------------------------------------------
(* Properties of the coded constructors, checked under SpecCoded *)

\* the last call was a coded constructor
C21Case == call.fn \in {"NewCodedError", "NewInternalErr"}

\* the error given has a code that the given code is on the parent chain of
Descends(err, code) ==
    IsErrorCode(err) /\ code \in ParentChain(codeHeap, Code(err))

-----------------------------------------------------------------------------
(* The application that answers a client: NewJSONFormat, ClientData *)

\* UserMsgErrorEmbed{}: the embedded user message is empty
UserMsgErrorEmbed == UserError(InputMissingCode, FALSE, "", TRUE, "")

\* the errors this application creates directly
JSONPrims ==
    { New(<<"boom">>), MinimalError(InvalidInputCode), UserMsgError,
      UserMsgErrorEmbed }

JSONOperands == JSONPrims \cup errs

\* the ErrorCodes among the operands
JSONCodes == {e \in JSONOperands : IsErrorCode(e)}

\* Combine(initial, others...), the aggregate is kept
DoCombineKeep(initial, others) ==
    /\ Room
    /\ Combine(initial, others) # Nil
    /\ Hold(Combine(initial, others))
    /\ call' = [fn |-> "Combine", initial |-> initial, others |-> others,
                out |-> Combine(initial, others)]
    /\ UNCHANGED <<heap, codeHeap, codes, metaData, codeCache, reqs>>

\* NewJSONFormat(errCode)
DoNewJSONFormat(errCode) ==
    /\ call' = [fn |-> "NewJSONFormat", arg |-> errCode,
                out |-> NewJSONFormat(heap, codeHeap, errCode)]
    /\ UNCHANGED <<heap, codeHeap, codes, metaData, errs, codeCache, reqs>>

\* ClientData(errCode)
DoClientDataOf(errCode) ==
    /\ call' = [fn |-> "ClientData", arg |-> errCode,
                out |-> ClientData(heap, errCode)]
    /\ UNCHANGED <<heap, codeHeap, codes, metaData, errs, codeCache, reqs>>

\* the errors given to Combine
JSONMembers == {MinimalError(InvalidInputCode), UserMsgError}

\* the errors that have the dynamic type k among those built
Built(k) == {e \in errs : e.k = k}

NextJSON ==
    \/ \E x \in {New(<<"boom">>)} \cup Built("ewrap") :
            Room /\ DoNewCodedError(x, InvalidInputCode)
    \/ \E x \in {MinimalError(InvalidInputCode)} \cup Built("coded") \cup Built("ewrap") :
            Room /\ DoWithUserMsg("please retry", x)
    \/ \E c \in {d \in Combinators : d.fn = "Wrap"}, x \in errs \cup {UserMsgError} :
            DoWrap(c, x, "while saving")
    \/ DoErrorWrapper(New(<<"data">>))
    \/ \E initial \in JSONMembers \cup errs,
          others \in SeqsUpTo(JSONMembers \cup Built("multi"), 1) :
            IsErrorCode(initial) /\ DoCombineKeep(initial, others)
    \/ \E errCode \in JSONCodes : DoNewJSONFormat(errCode)
    \/ \E errCode \in JSONCodes : DoClientDataOf(errCode)

SpecJSON == Init /\ [][NextJSON]_vars

-----------------------------------------------------------------------------
(* Properties of the client's answer, checked under SpecJSON *)

\* the positions on the unwrap chain of e that carry a user message
UserMsgAt(h, e) ==
    {i \in 1..Len(UnwrapChain(h, e)) :
        /\ HasUserMsg(UnwrapChain(h, e)[i])
        /\ GetUserMsgM(UnwrapChain(h, e)[i]) # ""}

Projected(h, ch, e) ==
    [Code |-> CodeStr(ch, Code(e)),
     Msg |-> IF GetUserMsg(h, e) = "" THEN Error(h, e) ELSE <<GetUserMsg(h, e)>>,
     Data |-> ClientData(h, e)]

\* the fields of a JSONFormat that Projected gives
Fields(j) == [Code |-> j.Code, Msg |-> j.Msg, Data |-> j.Data]

\* C23: NewJSONFormat(e).Others has exactly one projection for every entry
\* of ErrorCodes(e) after the first, in the same order, and each of them has
\* an empty Others: codes nested under a non-primary code are in the
\* top-level list, never deeper.
C23_OthersAreFlat ==
    call.fn = "NewJSONFormat" =>
        /\ Len(call.out.Others) = Len(ErrorCodes(heap, call.arg)) - 1
        /\ \A i \in 1..Len(call.out.Others) :
            /\ Fields(call.out.Others[i]) =
                   Projected(heap, codeHeap, ErrorCodes(heap, call.arg)[i + 1])
            /\ call.out.Others[i].Others = <<>>

\* C23 happens: an aggregate with an aggregate among its additional errors
\* is projected with two others
C23_Witness ==
    /\ call.fn = "NewJSONFormat"
    /\ call.arg.k = "multi"
    /\ \E i \in 1..Len(call.arg.rest) : call.arg.rest[i].k = "multi"
    /\ Len(call.out.Others) >= 2
    /\ \A i \in 1..Len(call.out.Others) : call.out.Others[i].Others = <<>>

\* the positions on the unwrap chain of e that implement HasClientData
ClientDataAt(h, e) ==
    {i \in 1..Len(UnwrapChain(h, e)) : HasClientData(UnwrapChain(h, e)[i])}

-----------------------------------------------------------------------------
(* The application that attaches user messages: WithUserMsg, UserMsg *)

\* the errors this application creates directly
UserPrims == {MinimalError(InputMissingCode), UserMsgError, UserMsgErrorEmbed, OpErrorHas}

\* the errors given to WithUserMsg and AddTo, nil among them
UserOperands == UserPrims \cup errs \cup {Nil}

\* the messages given, the empty one among them
UserMsgs == {"", "modify"}

\* WithUserMsg(msg, x); what it returns is kept while there is room
DoWithUserMsgAny(msg, x) ==
    /\ call' = [fn |-> "WithUserMsg", arg |-> x, label |-> msg,
                panics |-> WithUserMsg(msg, x).panics,
                out |-> WithUserMsg(msg, x).out]
    /\ errs' = IF WithUserMsg(msg, x).out # Nil /\ Room
               THEN errs \cup {WithUserMsg(msg, x).out} ELSE errs
    /\ UNCHANGED <<heap, codeHeap, codes, metaData, codeCache, reqs>>

\* UserMsg(msg).AddTo(x); what it returns is kept while there is room
DoUserMsgAddTo(msg, x) ==
    /\ call' = [fn |-> "AddTo", arg |-> x, label |-> msg,
                panics |-> AddTo(msg, x).panics,
                out |-> AddTo(msg, x).out]
    /\ errs' = IF AddTo(msg, x).out # Nil /\ Room
               THEN errs \cup {AddTo(msg, x).out} ELSE errs
    /\ UNCHANGED <<heap, codeHeap, codes, metaData, codeCache, reqs>>

NextUser ==
    \/ \E msg \in UserMsgs, x \in UserOperands : DoWithUserMsgAny(msg, x)
    \/ \E msg \in UserMsgs, x \in UserOperands : DoUserMsgAddTo(msg, x)

SpecUser == Init /\ [][NextUser]_vars

-----------------------------------------------------------------------------
(* Properties of the user message constructors, checked under SpecUser *)

\* the last call attached a user message
C25Case == call.fn \in {"WithUserMsg", "AddTo"}

C26_EmptyMsgReturns ==
    (call.fn = "AddTo" /\ call.label = "") =>
        /\ ~call.panics
        /\ call.arg = Nil => call.out = Nil
        /\ call.arg # Nil => GetUserMsg(heap, call.out) = ""

-----------------------------------------------------------------------------
(* The GOA adapter handling requests: ServiceErrorToErrorCode *)

\* the service errors of the requests: a name and the status GOA gives it
GoaErrs ==
    { [Name |-> "missing_field", StatusCode |-> StatusBadRequest],
      [Name |-> "custom", StatusCode |-> StatusBadRequest],
      [Name |-> "other", StatusCode |-> StatusBadRequest],
      [Name |-> "fault", StatusCode |-> StatusInternalServerError] }

Reqs == DOMAIN reqs

\* the runtime has ended the process
Crashed == \E r \in Reqs : reqs[r].pc = "fatal"

\* the request is between its first and its last access of the shared maps
InMaps(r) == reqs[r].pc \in {"lookup", "create", "store"}

\* a request enters serviceErrorToCode: the switch on the name and status
GoaStart(r, goaErr) ==
    /\ ~Crashed
    /\ reqs[r].pc = "idle"
    /\ reqs' = [reqs EXCEPT ![r] =
                  IF serviceErrorToCodeEarly(goaErr) # NilCode
                  THEN [pc |-> "done", err |-> goaErr,
                        code |-> serviceErrorToCodeEarly(goaErr)]
                  ELSE [pc |-> "lookup", err |-> goaErr]]
    /\ UNCHANGED <<heap, codeHeap, errs, codes, metaData, codeCache, call>>

\* code, okCode := codeCache[goaErr.Name]
GoaLookup(r) ==
    /\ ~Crashed
    /\ reqs[r].pc = "lookup"
    /\ reqs' = [reqs EXCEPT ![r] =
                  IF reqs[r].err.Name \in DOMAIN codeCache
                  THEN [pc |-> "done", err |-> reqs[r].err,
                        code |-> codeCache[reqs[r].err.Name]]
                  ELSE [pc |-> "create", err |-> reqs[r].err]]
    /\ UNCHANGED <<heap, codeHeap, errs, codes, metaData, codeCache, call>>

\* code = parentCode.Child(codeStr); code.SetHTTP(statusCode)
GoaSetHTTP(r) ==
    LET child == Child(codeHeap, InvalidInputCode, <<reqs[r].err.Name>>)
        set == SetMetaData(child[2], metaData, child[1], reqs[r].err.StatusCode)
    IN  /\ ~Crashed
        /\ reqs[r].pc = "create"
        /\ codeHeap' = child[2]
        /\ metaData' = set[2]
        /\ reqs' = [reqs EXCEPT ![r] =
                      IF set[1] THEN [pc |-> "panicked", err |-> reqs[r].err]
                      ELSE [pc |-> "store", err |-> reqs[r].err, code |-> child[1]]]
        /\ UNCHANGED <<heap, errs, codes, codeCache, call>>

\* codeCache[goaErr.Name] = code
GoaStore(r) ==
    /\ ~Crashed
    /\ reqs[r].pc = "store"
    /\ codeCache' = (reqs[r].err.Name :> reqs[r].code) @@ codeCache
    /\ reqs' = [reqs EXCEPT ![r] =
                  [pc |-> "done", err |-> reqs[r].err, code |-> reqs[r].code]]
    /\ UNCHANGED <<heap, codeHeap, errs, codes, metaData, call>>

\* a map write while another request uses the maps, without a lock: the
\* runtime may end the process (concurrent map read and map write)
GoaFatal(r) ==
    /\ ~Crashed
    /\ reqs[r].pc \in {"create", "store"}
    /\ \E o \in Reqs \ {r} : InMaps(o)
    /\ reqs' = [reqs EXCEPT ![r] = [pc |-> "fatal", err |-> reqs[r].err]]
    /\ UNCHANGED <<heap, codeHeap, errs, codes, metaData, codeCache, call>>

\* the response: ErrorCodeGoa.StatusCode looks the HTTP code up
GoaRespond(r) ==
    /\ ~Crashed
    /\ reqs[r].pc = "done"
    /\ call' = [fn |-> "ErrorResponse", arg |-> reqs[r].err,
                code |-> CodeStr(codeHeap, reqs[r].code),
                out |-> MetaDataFromAncestors(codeHeap, metaData, reqs[r].code)]
    /\ reqs' = [reqs EXCEPT ![r] = Idle]
    /\ UNCHANGED <<heap, codeHeap, errs, codes, metaData, codeCache>>

NextGoa ==
    \/ \E r \in Reqs, goaErr \in GoaErrs : GoaStart(r, goaErr)
    \/ \E r \in Reqs : GoaLookup(r)
    \/ \E r \in Reqs : GoaSetHTTP(r)
    \/ \E r \in Reqs : GoaStore(r)
    \/ \E r \in Reqs : GoaFatal(r)
    \/ \E r \in Reqs : GoaRespond(r)

SpecGoa == Init /\ [][NextGoa]_vars

-----------------------------------------------------------------------------
(* Properties of request handling, checked under SpecGoa *)

\* C27: the meta data tables are written during initialisation only: no
\* operation of a request writes one, and concurrent requests, two with the
\* same unseen error name among them, all complete: none ends in the
\* duplicate meta data panic or in a concurrent map access.
C27_RequestsWriteNoMetaData ==
    /\ metaData = InitMetaData
    /\ \A r \in Reqs : reqs[r].pc \notin {"panicked", "fatal"}

-----------------------------------------------------------------------------
(* The application that resolves errors step by step *)

\* the steps after which a walk is given up
MaxWalkSteps == 12

\* the errors this application creates directly
WalkPrims == {New(<<"ignore">>), MinimalError(InputMissingCode), OpErrorHas}

WalkOperands == WalkPrims \cup errs

\* a walk is under way
Running == call.fn = "walk" /\ call.todo # <<>>

\* the walk under way is given up
GivenUp == Running /\ call.steps = MaxWalkSteps

\* w := &ErrorWrapper{}; w.Err = w: a chain that unwraps to itself
DoTieKnot ==
    /\ Room
    /\ \A e \in errs : e.k # "ewrap"
    /\ heap' = Append(heap, ErrorWrapper(Len(heap) + 1))
    /\ Hold(ErrorWrapper(Len(heap) + 1))
    /\ call' = NoCall
    /\ UNCHANGED <<codeHeap, codes, metaData, codeCache, reqs>>

\* a call of one of the walking functions begins
WalkBegin(fn, v) ==
    /\ ~Running \/ GivenUp
    /\ call' = [fn |-> "walk", walk |-> fn, arg |-> v, todo |-> NonNil(<<v>>),
                steps |-> 0]
    /\ UNCHANGED <<heap, codeHeap, errs, codes, metaData, codeCache, reqs>>

\* the walk under way visits its next value
WalkStep ==
    /\ Running
    /\ call.steps < MaxWalkSteps
    /\ call' = [call EXCEPT
                  !.todo = walkNext(call.walk, heap, Head(call.todo)) \o Tail(call.todo),
                  !.steps = call.steps + 1]
    /\ UNCHANGED <<heap, codeHeap, errs, codes, metaData, codeCache, reqs>>

NextWalk ==
    \/ \E x \in WalkOperands : ~Running /\ Annotate(x)
    \/ \E x \in WalkPrims, y \in WalkOperands : ~Running /\ Group(x, y)
    \/ \E x \in errs : ~Running /\ DoCodeChain(x)
    \/ ~Running /\ DoTieKnot
    \/ \E fn \in WalkFns, v \in WalkOperands \cup {Nil} : WalkBegin(fn, v)
    \/ WalkStep

\* a walk under way is not left waiting
SpecWalk == Init /\ [][NextWalk]_vars /\ WF_vars(WalkStep)

-----------------------------------------------------------------------------
(* Properties of the walks, checked under SpecWalk *)

\* the values the unwrap structure leads to from v in one step
Children(h, v) == {w \in {Unwrap(h, v)} : w # Nil} \cup {UnwrapGroup(v)[i] : i \in DOMAIN UnwrapGroup(v)}

RECURSIVE Closure(_, _)
\* S and what the unwrap structure leads to from S
Closure(h, S) ==
    LET T == S \cup UNION {Children(h, w) : w \in S}
    IN  IF T = S THEN S ELSE Closure(h, T)

\* the unwrap structure of v leads back to one of its values
Cyclic(h, v) ==
    v # Nil /\ \E w \in Closure(h, {v}) : w \in Closure(h, Children(h, w))

RECURSIVE Nodes(_, _)
RECURSIVE NodesAll(_, _)
\* the number of nodes of the unwrap structure of v, when it is acyclic
Nodes(h, v) ==
    IF v = Nil THEN 0
    ELSE 1 + Nodes(h, Unwrap(h, v)) + NodesAll(h, UnwrapGroup(v))

NodesAll(h, members) ==
    IF members = <<>> THEN 0
    ELSE Nodes(h, Head(members)) + NodesAll(h, Tail(members))

\* the last call is a walk of an error with a finite acyclic structure
C28Case == call.fn = "walk" /\ ~Cyclic(heap, call.arg)

\* C28: CodeChain, ErrorCodes, ClientData, Operation and GetUserMsg end on
\* every error whose unwrap structure is finite and acyclic, a ChainContext
\* or an aggregate of an earlier resolution included, after no more steps
\* than the structure has nodes; only a cyclic chain keeps them running.
C28_WalksTerminate ==
    /\ [](C28Case => call.steps <= Nodes(heap, call.arg))
    /\ ((C28Case /\ Running) ~> ~Running)

\* C28 happens: ErrorCodes has walked a ChainContext to its end
C28_Witness ==
    /\ call.fn = "walk"
    /\ call.walk = "ErrorCodes"
    /\ call.arg # Nil
    /\ call.arg.k = "chain"
    /\ ~Running
    /\ call.steps >= 2
    /\ call.steps = Nodes(heap, call.arg)

-----------------------------------------------------------------------------
(* The application that wraps annotated errors *)

\* WithUserMsg("user", NewBadRequestErr(x)): the user message around a new
\* CodedError
DoUserBadRequest(x) ==
    LET coded == NewCodedError(heap, codeHeap, x, InvalidInputCode)
    IN  /\ Budget
        /\ heap' = coded[2]
        /\ Hold(WithUserMsg("user", coded[1]).out)
        /\ call' = [fn |-> "WithUserMsg", arg |-> coded[1], label |-> "user",
                    out |-> WithUserMsg("user", coded[1]).out]
        /\ UNCHANGED <<codeHeap, codes, metaData, codeCache, reqs>>

NextMany ==
    \/ DoUserBadRequest(New(<<"underlying">>))
    \/ DoWithUserMsg("user", MinimalError(InputMissingCode))
    \/ \E x \in errs : DoOp("op", x)
    \/ \E c \in Combinators, x \in errs, msg \in WrapMsgs : DoWrap(c, x, msg)

SpecMany == Init /\ [][NextMany]_vars

-----------------------------------------------------------------------------
(* Properties of wrapping annotated errors, checked under SpecMany *)

RECURSIVE Annotated(_)
\* the value below the annotation layers (user message, operation) of e
Annotated(e) ==
    CASE e.k = "user" -> Annotated(e.Err)
      [] e.k = "op" -> Annotated(e.ErrorCode)
      [] OTHER -> e

\* the last call was WrapUser, WrapsUser or WrapOp of annotation layers
C29Case ==
    /\ call.fn \in {"WrapUser", "WrapsUser", "WrapOp"}
    /\ call.arg # Nil
    /\ AnnPrefix(call.arg) # <<>>

\* C29: when e is annotation layers around a CodedError with the underlying
\* message u, WrapUser / WrapsUser / WrapOp(e, m) keeps Code(), writes m in
\* place at the CodedError, so that Error() is the prefixes of the
\* annotations in their order, the formatted m, then u, and u is reached by
\* unwrapping once per layer; when no layer wraps in place, m is the
\* outermost prefix.
C29_WrapBelowAnnotations ==
    C29Case =>
        LET n == Len(AnnPrefix(call.arg))
            u == SubSeq(call.was, n + 1, Len(call.was))
        IN  /\ Code(call.out) = Code(call.arg)
            /\ Root(heap, call.out) = call.root
            /\ Annotated(call.arg).k = "coded" =>
                /\ call.out = call.arg
                /\ Len(UnwrapChain(heap, call.out)) = Len(call.chain) + 1
                /\ Error(heap, call.out) =
                       AnnPrefix(call.arg) \o call.pre \o <<": ">> \o u
                /\ Error(heap, heap[Annotated(call.arg).ref]) =
                       call.pre \o <<": ">> \o u
            /\ (\A i \in 1..Len(call.chain) : ~IsErrorWrapper(call.chain[i])) =>
                /\ Error(heap, call.out) = call.pre \o <<": ">> \o call.was
                /\ Len(UnwrapChain(heap, call.out)) = Len(call.chain) + 2

\* C29 happens: WrapOp of an operation and a user message around a
\* CodedError
C29_Witness ==
    /\ call.fn = "WrapOp"
    /\ call.arg # Nil
    /\ call.arg.k = "op"
    /\ call.arg.ErrorCode.k = "user"
    /\ call.arg.ErrorCode.Err.k = "coded"
    /\ Error(heap, call.out) =
           <<"op", ": ", "user", ": ", "wrapped", ": ", "underlying">>
    /\ Len(UnwrapChain(heap, call.out)) = 5

-----------------------------------------------------------------------------
(* The application that gives empty labels *)

\* OpErrorEmbed{} of the tests: EmbedOp with an empty Op
OpErrorEmbed == UserError(InputMissingCode, TRUE, "", FALSE, "")

\* the errors this application creates directly
EmptyPrims ==
    {MinimalError(InputMissingCode), OpErrorEmbed, UserMsgErrorEmbed}

EmptyOperands == EmptyPrims \cup errs

\* the operations given to Op
OpLabelsGiven == {"", "a"}

NextEmpty ==
    \/ \E x \in EmptyOperands : Room /\ DoNewCodedError(x, InvalidInputCode)
    \/ \E x \in EmptyOperands : Room /\ DoWithUserMsg("a", x)
    \/ \E x \in EmptyOperands, l \in OpLabelsGiven : Room /\ DoOp(l, x)
    \/ \E v \in EmptyOperands \cup {Nil} : DoOperation(v)
    \/ \E v \in EmptyOperands \cup {Nil} : DoGetUserMsg(v)

SpecEmpty == Init /\ [][NextEmpty]_vars

-----------------------------------------------------------------------------
(* Properties of empty labels, checked under SpecEmpty *)

\* the positions of chain whose value implements HasOperation
OpCarriers(chain) == {i \in 1..Len(chain) : HasOperation(chain[i])}

\* the positions of chain whose value implements HasUserMsg
UserCarriers(chain) == {i \in 1..Len(chain) : HasUserMsg(chain[i])}

\* the least position of a non-empty set of positions
FirstOf(S) == CHOOSE i \in S : \A j \in S : i <= j

\* C30: GetUserMsg(v) / Operation(v) return the label of the first value on
\* the unwrap chain that implements HasUserMsg / HasOperation, the empty
\* label included, and never look past that value; they return "" for a
\* value that has neither the capability nor Unwrap.
C30_FirstCarrierEvenEmpty ==
    /\ call.fn = "Operation" =>
        LET chain == UnwrapChain(heap, call.arg)
        IN  /\ OpCarriers(chain) # {} =>
                call.out = GetOperationM(chain[FirstOf(OpCarriers(chain))])
            /\ OpCarriers(chain) = {} => call.out = ""
    /\ call.fn = "GetUserMsg" =>
        LET chain == UnwrapChain(heap, call.arg)
        IN  /\ UserCarriers(chain) # {} =>
                call.out = GetUserMsgM(chain[FirstOf(UserCarriers(chain))])
            /\ UserCarriers(chain) = {} => call.out = ""

\* C30 happens: Op("") around an error that carries the operation a gives
\* the empty operation
C30_Witness ==
    /\ call.fn = "Operation"
    /\ call.arg.k = "op"
    /\ call.arg.Op = ""
    /\ Operation(heap, call.arg.ErrorCode) = "a"
    /\ call.out = ""

====
